---------------------------- MODULE Spec2Model ----------------------------
(***************************************************************************)
(* Model of the hexagonal-bank service: the Account entity, the in-memory  *)
(* AccountRepository, the FullJitter backoff, the FakeSTP payment rail and *)
(* the deposit / transfer use cases.                                       *)
(*                                                                         *)
(* Go's int64 (balances, cents, time.Duration nanoseconds) does not fit a  *)
(* TLC integer, which is 32 bits wide.  An int64 is therefore kept as      *)
(* three limbs <<hi, mid, lo>> with value hi*2^60 + mid*2^30 + lo, where   *)
(* mid, lo \in 0..2^30-1 and hi \in -8..7 is the signed top limb (two's    *)
(* complement).  Add64 and Sub64 wrap modulo 2^64 exactly as Go does.      *)
(***************************************************************************)
EXTENDS Integers, Sequences, FiniteSets, TLC

VARIABLES
    \* ---- domain.Account exercised directly (SpecAccount)
    account,        \* the Account under test
    last,           \* the last Credit/Debit call: op, cents, err, balance before
    credited,       \* mathematical sum of the credits that succeeded
    debited,        \* mathematical sum of the debits that succeeded
    calls,          \* number of calls made so far
    \* ---- backoff.FullJitter exercised directly (SpecBackoff)
    jitter,         \* the arguments of one FullJitter call and its outcome
    \* ---- the service (Spec)
    data,           \* AccountRepository.data: account id -> stored Account
    proc,           \* per request: position and locals of the running use case
    ctxDone,        \* per request: whether its context has been cancelled
    events,         \* the events handed to Publish, in order, with what it returned
    hist,           \* per request: history of the run (what it called, and when)
    started,        \* number of requests started so far
    \* ---- memory.AccountRepository exercised directly (SpecStore)
    heap,           \* the Account objects allocated so far; a pointer is an index
    repo,           \* AccountRepository.data: account id -> pointer to an Account
    mutex,          \* AccountRepository.mutex: readers holding it, writer holding it
    thread,         \* per goroutine: position, arguments and results of its call
    stored,         \* what Create and Save have stored so far (history)
    \* ---- domain.NewCLABE exercised directly (SpecCLABE)
    clabeCall       \* the argument of one NewCLABE call and its outcome

accountVars == <<account, last, credited, debited, calls>>
backoffVars == <<jitter>>
serviceVars == <<data, proc, ctxDone, events, hist, started>>
storeVars == <<heap, repo, mutex, thread, stored>>
clabeVars == <<clabeCall>>

vars == <<account, last, credited, debited, calls, jitter,
          data, proc, ctxDone, events, hist, started,
          heap, repo, mutex, thread, stored, clabeCall>>

-----------------------------------------------------------------------------
(* Bounds of the model.                                                    *)

\* Largest small amount offered as an input (besides the int64 extremes).
MaxCents == 2
\* Longest sequence of Credit/Debit calls on the Account under test.
MaxCalls == 4
\* Largest attemptIndex handed to FullJitter when it is exercised directly.
MaxAttemptIndex == 40
\* Number of requests the service handles in one behaviour.
MaxRequests == 2
\* Largest small balance an account holds in the initial store.
MaxInitBalance == 1
\* Number of calls the goroutines make on the AccountRepository and on the
\* Accounts they hold, in one behaviour.
MaxStoreOps == 5
\* Longest run of spaces put into an account number handed to NewCLABE.
MaxSpaces == 2

-----------------------------------------------------------------------------
(* int64 arithmetic on limbs.                                              *)

Limb == 2^30

\* The int64 with the (small) value n, |n| < 2^30.
I64(n) == IF n >= 0 THEN <<0, 0, n>> ELSE <<-1, Limb - 1, Limb + n>>

MaxInt64 == <<7, Limb - 1, Limb - 1>>
MinInt64 == <<-8, 0, 0>>
Zero64 == <<0, 0, 0>>

\* Two's complement wrap of the top limb: the result modulo 2^64.
WrapHi(h) == ((h + 8) % 16) - 8

\* The mathematical sum, top limb unbounded (no wrap).
AddZ(x, y) ==
    LET lo == x[3] + y[3]
        mid == x[2] + y[2] + (lo \div Limb)
        hi == x[1] + y[1] + (mid \div Limb)
    IN  <<hi, mid % Limb, lo % Limb>>

\* The mathematical difference, top limb unbounded (no wrap).
SubZ(x, y) ==
    LET lo == x[3] - y[3]
        b0 == IF lo < 0 THEN 1 ELSE 0
        mid == x[2] - y[2] - b0
        b1 == IF mid < 0 THEN 1 ELSE 0
        hi == x[1] - y[1] - b1
    IN  <<hi, mid + b1 * Limb, lo + b0 * Limb>>

\* Go's x + y and x - y on int64: wrap around silently.
Add64(x, y) == LET s == AddZ(x, y) IN <<WrapHi(s[1]), s[2], s[3]>>
Sub64(x, y) == LET d == SubZ(x, y) IN <<WrapHi(d[1]), d[2], d[3]>>

IsNeg(x) == x[1] < 0
IsZero(x) == x[1] = 0 /\ x[2] = 0 /\ x[3] = 0
\* x < y and x <= y on the limbs (the top limb carries the sign).
Less(x, y) ==
    \/ x[1] < y[1]
    \/ x[1] = y[1] /\ x[2] < y[2]
    \/ x[1] = y[1] /\ x[2] = y[2] /\ x[3] < y[3]
LessEq(x, y) == x = y \/ Less(x, y)

-----------------------------------------------------------------------------
(* Errors (domain/errors.go) and the Account entity (domain/account.go).   *)

Nil == "nil"
ErrInvalidAmount == "invalid amount: must be > 0"
ErrInsufficientFund == "insufficient funds"
ErrInvalidCLABE == "invalid CLABE: must be 18 digits"
ErrEmptyHolder == "holder name cannot be empty"

\* Amounts offered to Credit, Debit, deposit and transfer.
CentsInputs == {I64(n) : n \in -1..MaxCents} \cup {MaxInt64}

\* NewAccount: a blank holder name is rejected, the balance starts at 0.
\* strings.TrimSpace(holderName) == "" is modelled on the names "" and " ".
NewAccount(id, holderName, clabe) ==
    IF holderName \in {"", " "}
    THEN [account |-> Nil, err |-> ErrEmptyHolder]
    ELSE [account |-> [ID |-> id, holderName |-> holderName,
                       clabe |-> clabe, balance |-> Zero64],
          err |-> Nil]

\* Debit with the two checks in the other order.
DebitFundsFirst(a, cents) ==
    IF IsNeg(Sub64(a.balance, cents))
    THEN [account |-> a, err |-> ErrInsufficientFund]
    ELSE IF LessEq(cents, Zero64)
    THEN [account |-> a, err |-> ErrInvalidAmount]
    ELSE [account |-> [a EXCEPT !.balance = Sub64(a.balance, cents)], err |-> Nil]

\* Debit refusing to empty the account (<= for <).
DebitKeepsOne(a, cents) ==
    IF LessEq(cents, Zero64)
    THEN [account |-> a, err |-> ErrInvalidAmount]
    ELSE IF LessEq(Sub64(a.balance, cents), Zero64)
    THEN [account |-> a, err |-> ErrInsufficientFund]
    ELSE [account |-> [a EXCEPT !.balance = Sub64(a.balance, cents)], err |-> Nil]

\* Debit without the test of the funds.
DebitUnchecked(a, cents) ==
    IF LessEq(cents, Zero64)
    THEN [account |-> a, err |-> ErrInvalidAmount]
    ELSE [account |-> [a EXCEPT !.balance = Sub64(a.balance, cents)], err |-> Nil]

\* Account.Debit: the account after the call and the error returned.
Debit(a, cents) ==
    IF LessEq(cents, Zero64)
    THEN [account |-> a, err |-> ErrInvalidAmount]
    ELSE IF IsNeg(Sub64(a.balance, cents))
    THEN [account |-> a, err |-> ErrInsufficientFund]
    ELSE [account |-> [a EXCEPT !.balance = Sub64(a.balance, cents)], err |-> Nil]

\* Account.Credit: balance += cents on int64 wraps around.
Credit(a, cents) ==
    IF LessEq(cents, Zero64)
    THEN [account |-> a, err |-> ErrInvalidAmount]
    ELSE [account |-> [a EXCEPT !.balance = Add64(a.balance, cents)], err |-> Nil]

Balance(a) == a.balance

-----------------------------------------------------------------------------
(* domain.NewCLABE.  A string is the sequence of its characters, each a    *)
(* Unicode code point; Go's len counts the bytes of the UTF-8 encoding and *)
(* range yields the code points.                                           *)

\* '0' + d for the digits of "032180000118359719", and "12345".
ValidCLABE == [i \in 1..18 |->
                 48 + <<0, 3, 2, 1, 8, 0, 0, 0, 0, 1, 1, 8, 3, 5, 9, 7, 1, 9>>[i]]
ShortCLABE == <<49, 50, 51, 52, 53>>

\* s with t put in after its first i characters (at its end if it is shorter).
InsertAt(s, i, t) ==
    LET k == IF i > Len(s) THEN Len(s) ELSE i IN
    SubSeq(s, 1, k) \o t \o SubSeq(s, k + 1, Len(s))

\* The bytes of the UTF-8 encoding of a code point (below U+10000 here).
Utf8Len(r) == IF r < 128 THEN 1 ELSE IF r < 2048 THEN 2 ELSE 3

\* len(s)
RECURSIVE ByteLen(_)
ByteLen(s) == IF s = << >> THEN 0 ELSE Utf8Len(Head(s)) + ByteLen(Tail(s))

\* strings.ReplaceAll(raw, " ", "")
RECURSIVE RemoveSpaces(_)
RemoveSpaces(raw) ==
    IF raw = << >> THEN << >>
    ELSE IF Head(raw) = 32 THEN RemoveSpaces(Tail(raw))
    ELSE <<Head(raw)>> \o RemoveSpaces(Tail(raw))

\* NewCLABE without its loop over the characters.
NewCLABELengthOnly(raw) ==
    LET normalized == RemoveSpaces(raw) IN
    IF ByteLen(normalized) # 18
    THEN [value |-> << >>, err |-> ErrInvalidCLABE]
    ELSE [value |-> normalized, err |-> Nil]

\* NewCLABE: the CLABE value and the error returned.
NewCLABE(raw) ==
    LET normalized == RemoveSpaces(raw) IN
    IF ByteLen(normalized) # 18
    THEN [value |-> << >>, err |-> ErrInvalidCLABE]
    ELSE IF \E i \in 1..Len(normalized) : normalized[i] < 48 \/ normalized[i] > 57
    THEN [value |-> << >>, err |-> ErrInvalidCLABE]
    ELSE [value |-> normalized, err |-> Nil]

-----------------------------------------------------------------------------
(* backoff.FullJitter (durations are int64 nanoseconds).                   *)

\* x * m for a small natural m, by repeated addition (no wrap).
RECURSIVE MulZ(_, _)
MulZ(x, m) == IF m = 0 THEN Zero64 ELSE LET rest == MulZ(x, m - 1) IN AddZ(x, rest)

Millisecond == I64(1000000)
Second == I64(1000000000)

\* The constants of FakeSTP.SendTransfer.
maxRetries == 4
baseDelay == I64(200000000)
multiplier == 2
maxDelay == MulZ(Second, 3)

\* A float64 of 2^63 or more (+Inf included) is too large for an int64; it
\* is kept as the one value TooLarge, whose top limb is 8.
TooLarge == <<8, 0, 0>>
IsTooLarge(f) == f[1] >= 8

\* float64(baseDelay) * math.Pow(multiplier, float64(attemptIndex)), for a
\* multiplier that is a small whole number: the product is then a whole
\* number, kept exactly while it is below 2^63, which is where float64
\* holds the products of the inputs used here exactly.
RECURSIVE FloatProduct(_, _, _)
FloatProduct(base, mult, attemptIndex) ==
    IF attemptIndex = 0 THEN base
    ELSE LET p == FloatProduct(base, mult, attemptIndex - 1) IN
         IF IsTooLarge(p) THEN TooLarge
         ELSE LET q == MulZ(p, mult) IN
              IF IsTooLarge(q) THEN TooLarge ELSE q

\* time.Duration(f) for a float64 f: Go leaves the result of an out-of-range
\* conversion to the implementation: amd64 yields the smallest int64,
\* arm64 saturates at the largest.
ToDuration(f) == IF IsTooLarge(f) THEN {MinInt64, MaxInt64} ELSE {f}

\* rand.Int63n(n) panics for n <= 0 and otherwise returns a value of
\* [0, n); the values kept are 0, 1 and n-1.
Int63n(n) ==
    IF LessEq(n, Zero64) THEN {[panic |-> TRUE, delay |-> Zero64]}
    ELSE {[panic |-> FALSE, delay |-> r] :
             r \in {x \in {Zero64, I64(1), Sub64(n, I64(1))} : Less(x, n)}}

\* FullJitter: the outcomes of one call (a panic, or the delay returned).
FullJitter(attemptIndex, base, mult, max) ==
    UNION {Int63n(Add64(IF Less(max, exponential) THEN max ELSE exponential, I64(1))) :
              exponential \in ToDuration(FloatProduct(base, mult, attemptIndex))}

-----------------------------------------------------------------------------
(* The idle values of the variables a specification does not use.          *)

NoJitter == [called |-> FALSE, attemptIndex |-> 0, base |-> Zero64, mult |-> 1,
             max |-> Zero64, panic |-> FALSE, delay |-> Zero64]

NoCall == [op |-> "none", cents |-> Zero64, err |-> Nil, before |-> Zero64]

AccountIdle ==
    /\ account = Nil
    /\ last = NoCall
    /\ credited = Zero64
    /\ debited = Zero64
    /\ calls = 0

\* The goroutines that call the AccountRepository directly.
Goroutines == {"g1", "g2"}

NoThread == [pc |-> "idle", id |-> "", ptr |-> 0, err |-> Nil, before |-> << >>,
             arg |-> Nil, origin |-> "none", dirty |-> FALSE]

StoreIdle ==
    /\ heap = << >>
    /\ repo = << >>
    /\ mutex = [readers |-> 0, writer |-> FALSE]
    /\ thread = [g \in Goroutines |-> NoThread]
    /\ stored = [ever |-> {}, last |-> << >>, ops |-> 0]

NoCLABE == [called |-> FALSE, raw |-> << >>, value |-> << >>, err |-> Nil]

ClabeIdle == clabeCall = NoCLABE

-----------------------------------------------------------------------------
(* memory.AccountRepository.  Each operation runs under the repository's   *)
(* RWMutex, so it is one atomic step; an Account is a value here, so the   *)
(* struct copy of cloneAccount yields the same value.                      *)

ErrNotFound == "not found"
ErrAlreadyExists == "already exists"

AccountIds == {"a", "b", "c"}

\* A copy made field by field that forgets the holder name.
cloneAccountWithoutHolder(a) == [ID |-> a.ID, holderName |-> "",
                                 clabe |-> a.clabe, balance |-> a.balance]

cloneAccount(a) == [ID |-> a.ID, holderName |-> a.holderName,
                    clabe |-> a.clabe, balance |-> a.balance]

ByID(store, id) ==
    IF id \in DOMAIN store
    THEN [account |-> cloneAccount(store[id]), err |-> Nil]
    ELSE [account |-> Nil, err |-> ErrNotFound]

Save(store, a) ==
    [id \in DOMAIN store \cup {a.ID} |-> IF id = a.ID THEN cloneAccount(a) ELSE store[id]]

Create(store, a) ==
    IF a.ID \in DOMAIN store
    THEN [data |-> store, err |-> ErrAlreadyExists]
    ELSE [data |-> Save(store, a), err |-> Nil]

-----------------------------------------------------------------------------
(* The requests.  Each handler runs one use case at a time; its locals     *)
(* are the fields of proc[h].                                              *)

Handlers == {"h1", "h2"}

ErrTransient == "temporary STP outage"
ErrCanceled == "context canceled"
ErrUnreachable == "unreachable"
ErrNotOK == "stp not ok"

NoProc == [pc |-> "idle", op |-> "none", from |-> "", to |-> "", cents |-> Zero64,
           fromAccount |-> Nil, toAccount |-> Nil, account |-> Nil,
           status |-> "", err |-> Nil, attemptIndex |-> 0, result |-> Nil,
           input |-> Nil, response |-> [status |-> 0, error |-> ""]]

\* What a run has done so far: the store when it started, the ids it saved,
\* its SendTransfer calls, its published events, whether no other request
\* ran during it; and of the SendTransfer call in progress or just returned:
\* the attempts of the external call, the backoff waits begun, whether the
\* last attempt succeeded, and whether the context was cancelled while the
\* call was waiting in the select.
NoHist == [pre |-> << >>, saves |-> << >>, sends |-> 0, published |-> 0, alone |-> TRUE,
           attempts |-> 0, waits |-> 0, lastOk |-> FALSE, sigInWait |-> FALSE]

\* Every action of the service leaves the other specifications' variables.
Others == UNCHANGED <<accountVars, backoffVars, storeVars, clabeVars>>

Running(h) == proc[h].pc \notin {"idle", "done"}

Set(r, upd) == [k \in DOMAIN r |-> IF k \in DOMAIN upd THEN upd[k] ELSE r[k]]

Step(h, upd) == proc' = [proc EXCEPT ![h] = Set(@, upd)]
Note(h, upd) == hist' = [hist EXCEPT ![h] = Set(@, upd)]

\* The use case returns: the error and the output DTO.
Return(h, err, out) == Step(h, [pc |-> "done", result |-> [err |-> err, out |-> out]])

\* A request arrives at handler h: its history starts, and every request
\* already running is no longer alone.
Arrive(h) ==
    /\ proc[h].pc = "idle"
    /\ started' = started + 1
    /\ hist' = [v \in Handlers |->
                  IF v = h
                  THEN [NoHist EXCEPT !.pre = data,
                                      !.alone = \A u \in Handlers \ {h} : ~Running(u)]
                  ELSE IF Running(v) THEN [hist[v] EXCEPT !.alone = FALSE]
                  ELSE hist[v]]

\* The initial store: accounts a and b exist, c does not.
InitStores ==
    {[id \in {"a", "b"} |->
        [ID |-> id, holderName |-> "Alice", clabe |-> NewCLABE(ValidCLABE).value,
         balance |-> IF id = "a" THEN x ELSE y]] :
       x \in {I64(n) : n \in 1..MaxInitBalance}, y \in {Zero64, MaxInt64}}

ServiceIdle ==
    /\ data = << >>
    /\ proc = [h \in Handlers |-> NoProc]
    /\ ctxDone = [h \in Handlers |-> FALSE]
    /\ events = << >>
    /\ hist = [h \in Handlers |-> NoHist]
    /\ started = 0

Init ==
    /\ AccountIdle
    /\ jitter = NoJitter
    /\ StoreIdle
    /\ ClabeIdle
    /\ data \in InitStores
    /\ proc = [h \in Handlers |-> NoProc]
    /\ ctxDone = [h \in Handlers |-> FALSE]
    /\ events = << >>
    /\ hist = [h \in Handlers |-> NoHist]
    /\ started = 0

-----------------------------------------------------------------------------
(* DepositMoneyUseCase.Execute.                                            *)

DepositByID(h) ==
    /\ Arrive(h)
    /\ \E id \in AccountIds, cents \in CentsInputs :
          LET r == ByID(data, id) IN
          IF r.err # Nil
          THEN Step(h, [pc |-> "done", op |-> "deposit", to |-> id, cents |-> cents,
                        result |-> [err |-> r.err, out |-> Nil]])
          ELSE Step(h, [pc |-> "d_credit", op |-> "deposit", to |-> id, cents |-> cents,
                        account |-> r.account])
    /\ UNCHANGED <<data, ctxDone, events>>
    /\ Others

DepositCredit(h) ==
    /\ proc[h].pc = "d_credit"
    /\ LET r == Credit(proc[h].account, proc[h].cents) IN
       IF r.err # Nil
       THEN Return(h, r.err, Nil)
       ELSE Step(h, [pc |-> "d_save", account |-> r.account])
    /\ UNCHANGED <<data, ctxDone, events, hist, started>>
    /\ Others

\* An Execute that adds the amount to the balance the store holds when it
\* saves, instead of saving its local copy.
DepositSaveMerging(h) ==
    /\ proc[h].pc = "d_save"
    /\ data' = Save(data, Credit(data[proc[h].to], proc[h].cents).account)
    /\ Note(h, [saves |-> Append(hist[h].saves, proc[h].account.ID)])
    /\ Return(h, Nil, [ID |-> proc[h].account.ID, Balance |-> Balance(proc[h].account)])
    /\ UNCHANGED <<ctxDone, events, started>>
    /\ Others

DepositSave(h) ==
    /\ proc[h].pc = "d_save"
    /\ data' = Save(data, proc[h].account)
    /\ Note(h, [saves |-> Append(hist[h].saves, proc[h].account.ID)])
    /\ Return(h, Nil, [ID |-> proc[h].account.ID, Balance |-> Balance(proc[h].account)])
    /\ UNCHANGED <<ctxDone, events, started>>
    /\ Others

-----------------------------------------------------------------------------
(* OpenAccountUseCase.Execute.                                             *)

\* The holder names and account numbers offered: a name, the empty name and
\* a blank one; the valid number, the same with a space in it, and "12345".
HolderNames == {"Alice", "", " "}
OpenCLABEs == {ValidCLABE, InsertAt(ValidCLABE, 4, <<32>>), ShortCLABE}

\* id.New() returns the hex form of 12 random bytes: any id, one that is in
\* the store already included.  (The ids a, b, c stand for such strings.)
NewIDs == AccountIds

\* NewCLABE, then id.New(), then NewAccount.
OpenAccountNew(h) ==
    /\ Arrive(h)
    /\ \E holderName \in HolderNames, raw \in OpenCLABEs, newID \in NewIDs :
          LET c == NewCLABE(raw)
              a == NewAccount(newID, holderName, c.value)
              in == [HolderName |-> holderName, CLABE |-> raw]
          IN  IF c.err # Nil
              THEN Step(h, [pc |-> "done", op |-> "open", input |-> in,
                            result |-> [err |-> c.err, out |-> Nil]])
              ELSE IF a.err # Nil
              THEN Step(h, [pc |-> "done", op |-> "open", input |-> in, to |-> newID,
                            result |-> [err |-> a.err, out |-> Nil]])
              ELSE Step(h, [pc |-> "o_create", op |-> "open", input |-> in, to |-> newID,
                            account |-> a.account])
    /\ UNCHANGED <<data, ctxDone, events>>
    /\ Others

\* An Execute that stores the new account with Save.
OpenAccountSave(h) ==
    /\ proc[h].pc = "o_create"
    /\ data' = Save(data, proc[h].account)
    /\ Return(h, Nil, [ID |-> proc[h].account.ID,
                       HolderName |-> proc[h].account.holderName,
                       CLABE |-> proc[h].account.clabe,
                       Balance |-> Balance(proc[h].account)])
    /\ UNCHANGED <<ctxDone, events, hist, started>>
    /\ Others

\* accountWriter.Create, and the output DTO.
OpenAccountCreate(h) ==
    /\ proc[h].pc = "o_create"
    /\ LET r == Create(data, proc[h].account) IN
          /\ data' = r.data
          /\ IF r.err # Nil
             THEN Return(h, r.err, Nil)
             ELSE Return(h, Nil, [ID |-> proc[h].account.ID,
                                  HolderName |-> proc[h].account.holderName,
                                  CLABE |-> proc[h].account.clabe,
                                  Balance |-> Balance(proc[h].account)])
    /\ UNCHANGED <<ctxDone, events, hist, started>>
    /\ Others

-----------------------------------------------------------------------------
(* TransferMoneyUseCase.Execute, up to the call of the payment gateway.    *)

\* An Execute that looks at the amount before it looks up the accounts.
TransferByIDFromAmountFirst(h) ==
    /\ Arrive(h)
    /\ \E from \in AccountIds, to \in AccountIds, cents \in CentsInputs :
          LET r == ByID(data, from) IN
          IF LessEq(cents, Zero64)
          THEN Step(h, [pc |-> "done", op |-> "transfer", from |-> from, to |-> to,
                        cents |-> cents, result |-> [err |-> ErrInvalidAmount, out |-> Nil]])
          ELSE IF r.err # Nil
          THEN Step(h, [pc |-> "done", op |-> "transfer", from |-> from, to |-> to,
                        cents |-> cents, result |-> [err |-> r.err, out |-> Nil]])
          ELSE Step(h, [pc |-> "t_byIDTo", op |-> "transfer", from |-> from, to |-> to,
                        cents |-> cents, fromAccount |-> r.account])
    /\ UNCHANGED <<data, ctxDone, events>>
    /\ Others

TransferByIDFrom(h) ==
    /\ Arrive(h)
    /\ \E from \in AccountIds, to \in AccountIds, cents \in CentsInputs :
          LET r == ByID(data, from) IN
          IF r.err # Nil
          THEN Step(h, [pc |-> "done", op |-> "transfer", from |-> from, to |-> to,
                        cents |-> cents, result |-> [err |-> r.err, out |-> Nil]])
          ELSE Step(h, [pc |-> "t_byIDTo", op |-> "transfer", from |-> from, to |-> to,
                        cents |-> cents, fromAccount |-> r.account])
    /\ UNCHANGED <<data, ctxDone, events>>
    /\ Others

TransferByIDTo(h) ==
    /\ proc[h].pc = "t_byIDTo"
    /\ LET r == ByID(data, proc[h].to) IN
       IF r.err # Nil
       THEN Return(h, r.err, Nil)
       ELSE Step(h, [pc |-> "t_rules", toAccount |-> r.account])
    /\ UNCHANGED <<data, ctxDone, events, hist, started>>
    /\ Others

\* An Execute that calls SendTransfer whatever Debit and Credit return.
TransferDomainRulesUnchecked(h) ==
    /\ proc[h].pc = "t_rules"
    /\ LET d == Debit(proc[h].fromAccount, proc[h].cents)
           c == Credit(proc[h].toAccount, proc[h].cents)
       IN  /\ Step(h, [pc |-> "stp_attempt", fromAccount |-> d.account,
                       toAccount |-> c.account, attemptIndex |-> 0])
           /\ Note(h, [sends |-> hist[h].sends + 1])
    /\ UNCHANGED <<data, ctxDone, events, started>>
    /\ Others

\* Debit, then Credit, on the two local copies; then SendTransfer is called.
TransferDomainRules(h) ==
    /\ proc[h].pc = "t_rules"
    /\ LET d == Debit(proc[h].fromAccount, proc[h].cents)
           c == Credit(proc[h].toAccount, proc[h].cents)
       IN  IF d.err # Nil
           THEN Return(h, d.err, Nil) /\ UNCHANGED hist
           ELSE IF c.err # Nil
           THEN /\ Step(h, [pc |-> "done", fromAccount |-> d.account,
                            result |-> [err |-> c.err, out |-> Nil]])
                /\ UNCHANGED hist
           ELSE /\ Step(h, [pc |-> "stp_attempt", fromAccount |-> d.account,
                            toAccount |-> c.account, attemptIndex |-> 0])
                /\ Note(h, [sends |-> hist[h].sends + 1])
    /\ UNCHANGED <<data, ctxDone, events, started>>
    /\ Others

-----------------------------------------------------------------------------
(* stp.FakeSTP.SendTransfer: the retry loop of the payment rail.           *)

\* backoff.FullJitter(attemptIndex, baseDelay, multiplier, maxDelay) for
\* each attemptIndex of the loop: the outcomes of the call.
SleepDurations ==
    [attemptIndex \in 0..maxRetries |->
        FullJitter(attemptIndex, baseDelay, multiplier, maxDelay)]

\* SendTransfer returns status and err to Execute.
STPReturn(h, status, err) ==
    Step(h, [pc |-> "t_status", status |-> status, err |-> err, attemptIndex |-> 0])

\* The timer case of the select is taken: attemptIndex++ and the loop test.
STPNextIteration(h) ==
    IF proc[h].attemptIndex + 1 <= maxRetries
    THEN Step(h, [pc |-> "stp_attempt", attemptIndex |-> proc[h].attemptIndex + 1])
    ELSE STPReturn(h, "FAILED", ErrUnreachable)

\* The select is entered with the timer of time.After(sleepDuration)
\* started.  A case that is ready is taken, at random if both are:
\* ctx.Done() is ready once the context is cancelled, and the timer may have
\* expired already.  With no case ready the goroutine waits.  (Time is not
\* modelled: sleepDuration only sets when the timer expires.)
STPSelect(h, expired) ==
    IF ctxDone[h]
    THEN IF expired THEN STPNextIteration(h) ELSE STPReturn(h, "CANCELLED", ErrCanceled)
    ELSE Step(h, [pc |-> "stp_blocked"])

\* A loop that goes on after the external call succeeded.
STPAttemptNoReturn(h) ==
    /\ proc[h].pc = "stp_attempt"
    /\ \E success \in BOOLEAN :
          IF proc[h].attemptIndex = maxRetries
          THEN /\ STPReturn(h, IF success THEN "OK" ELSE "FAILED",
                               IF success THEN Nil ELSE ErrTransient)
               /\ Note(h, [attempts |-> hist[h].attempts + 1, lastOk |-> success])
          ELSE /\ STPSelect(h, FALSE)
               /\ Note(h, [attempts |-> hist[h].attempts + 1, lastOk |-> success,
                           waits |-> hist[h].waits + 1])
    /\ UNCHANGED <<data, ctxDone, events, started>>
    /\ Others

\* A loop whose last attempt is not recognised (maxRetries + 1 for maxRetries).
STPAttemptOneMore(h) ==
    /\ proc[h].pc = "stp_attempt"
    /\ \E success \in BOOLEAN :
          IF success
          THEN /\ STPReturn(h, "OK", Nil)
               /\ Note(h, [attempts |-> hist[h].attempts + 1, lastOk |-> TRUE])
          ELSE IF proc[h].attemptIndex = maxRetries + 1
          THEN /\ STPReturn(h, "FAILED", ErrTransient)
               /\ Note(h, [attempts |-> hist[h].attempts + 1, lastOk |-> FALSE])
          ELSE \E sleepDuration \in SleepDurations[proc[h].attemptIndex],
                  expired \in BOOLEAN :
                  /\ IF sleepDuration.panic
                     THEN Step(h, [pc |-> "panic"])
                     ELSE STPSelect(h, expired)
                  /\ Note(h, [attempts |-> hist[h].attempts + 1, lastOk |-> FALSE,
                              waits |-> hist[h].waits + 1])
    /\ UNCHANGED <<data, ctxDone, events, started>>
    /\ Others

\* A loop that looks at the context before each attempt.
STPAttemptCheckingDone(h) ==
    /\ proc[h].pc = "stp_attempt"
    /\ IF ctxDone[h]
       THEN STPReturn(h, "CANCELLED", ErrCanceled) /\ UNCHANGED hist
       ELSE \E success \in BOOLEAN :
          IF success
          THEN /\ STPReturn(h, "OK", Nil)
               /\ Note(h, [attempts |-> hist[h].attempts + 1, lastOk |-> TRUE])
          ELSE IF proc[h].attemptIndex = maxRetries
          THEN /\ STPReturn(h, "FAILED", ErrTransient)
               /\ Note(h, [attempts |-> hist[h].attempts + 1, lastOk |-> FALSE])
          ELSE \E sleepDuration \in SleepDurations[proc[h].attemptIndex],
                  expired \in BOOLEAN :
                  /\ IF sleepDuration.panic
                     THEN Step(h, [pc |-> "panic"])
                     ELSE STPSelect(h, expired)
                  /\ Note(h, [attempts |-> hist[h].attempts + 1, lastOk |-> FALSE,
                              waits |-> hist[h].waits + 1])
    /\ UNCHANGED <<data, ctxDone, events, started>>
    /\ Others

\* One iteration of the loop, up to the select: the simulated external call
\* succeeds (rand.Float64() < 0.7) or fails transiently; after a failure
\* with retries left FullJitter gives sleepDuration and the select is entered.
STPAttempt(h) ==
    /\ proc[h].pc = "stp_attempt"
    /\ \E success \in BOOLEAN :
          IF success
          THEN /\ STPReturn(h, "OK", Nil)
               /\ Note(h, [attempts |-> hist[h].attempts + 1, lastOk |-> TRUE])
          ELSE IF proc[h].attemptIndex = maxRetries
          THEN /\ STPReturn(h, "FAILED", ErrTransient)
               /\ Note(h, [attempts |-> hist[h].attempts + 1, lastOk |-> FALSE])
          ELSE \E sleepDuration \in SleepDurations[proc[h].attemptIndex],
                  expired \in BOOLEAN :
                  /\ IF sleepDuration.panic
                     THEN Step(h, [pc |-> "panic"])
                     ELSE STPSelect(h, expired)
                  /\ Note(h, [attempts |-> hist[h].attempts + 1, lastOk |-> FALSE,
                              waits |-> hist[h].waits + 1])
    /\ UNCHANGED <<data, ctxDone, events, started>>
    /\ Others

\* A wait that sleeps through a cancellation (time.Sleep for the select).
STPTimerIgnoringDone(h) ==
    /\ proc[h].pc = "stp_blocked"
    /\ STPNextIteration(h)
    /\ UNCHANGED <<data, ctxDone, events, hist, started>>
    /\ Others

\* The goroutine waits in the select and the timer fires first.
STPTimer(h) ==
    /\ proc[h].pc = "stp_blocked"
    /\ ~ctxDone[h]
    /\ STPNextIteration(h)
    /\ UNCHANGED <<data, ctxDone, events, hist, started>>
    /\ Others

\* The goroutine waits in the select and the context was cancelled first.
STPCancelled(h) ==
    /\ proc[h].pc = "stp_blocked"
    /\ ctxDone[h]
    /\ STPReturn(h, "CANCELLED", ErrCanceled)
    /\ UNCHANGED <<data, ctxDone, events, hist, started>>
    /\ Others

\* The caller's context is cancelled (the client went away, the deadline
\* passed).  Only SendTransfer's select reads the context, so the signal
\* is modelled where it can still be observed: before SendTransfer is
\* called, between its attempts, and while it waits.
Cancel(h) ==
    /\ proc[h].pc \in {"t_rules", "stp_attempt", "stp_blocked"}
    /\ ~ctxDone[h]
    /\ ctxDone' = [ctxDone EXCEPT ![h] = TRUE]
    /\ Note(h, [sigInWait |-> proc[h].pc = "stp_blocked"])
    /\ UNCHANGED <<data, proc, events, started>>
    /\ Others

-----------------------------------------------------------------------------
(* TransferMoneyUseCase.Execute, after the payment gateway returned.       *)

\* Execute persisting whatever the gateway answered.
TransferCheckStatusSkipped(h) ==
    /\ proc[h].pc = "t_status"
    /\ Step(h, [pc |-> "t_saveFrom"])
    /\ Note(h, [attempts |-> 0, waits |-> 0, lastOk |-> FALSE, sigInWait |-> FALSE])
    /\ UNCHANGED <<data, ctxDone, events, started>>
    /\ Others

\* Execute looks at what SendTransfer returned (the history of that call
\* ends here).
TransferCheckStatus(h) ==
    /\ proc[h].pc = "t_status"
    /\ IF proc[h].err # Nil
       THEN Return(h, proc[h].err, Nil)
       ELSE IF proc[h].status # "OK"
       THEN Return(h, ErrNotOK, Nil)
       ELSE Step(h, [pc |-> "t_saveFrom"])
    /\ Note(h, [attempts |-> 0, waits |-> 0, lastOk |-> FALSE, sigInWait |-> FALSE])
    /\ UNCHANGED <<data, ctxDone, events, started>>
    /\ Others

\* An Execute that saves the destination where it should save the source.
TransferSaveFromSwapped(h) ==
    /\ proc[h].pc = "t_saveFrom"
    /\ data' = Save(data, proc[h].toAccount)
    /\ Note(h, [saves |-> Append(hist[h].saves, proc[h].toAccount.ID)])
    /\ Step(h, [pc |-> "t_saveTo"])
    /\ UNCHANGED <<ctxDone, events, started>>
    /\ Others

TransferSaveFrom(h) ==
    /\ proc[h].pc = "t_saveFrom"
    /\ data' = Save(data, proc[h].fromAccount)
    /\ Note(h, [saves |-> Append(hist[h].saves, proc[h].fromAccount.ID)])
    /\ Step(h, [pc |-> "t_saveTo"])
    /\ UNCHANGED <<ctxDone, events, started>>
    /\ Others

TransferSaveTo(h) ==
    /\ proc[h].pc = "t_saveTo"
    /\ data' = Save(data, proc[h].toAccount)
    /\ Note(h, [saves |-> Append(hist[h].saves, proc[h].toAccount.ID)])
    /\ Step(h, [pc |-> "t_publish"])
    /\ UNCHANGED <<ctxDone, events, started>>
    /\ Others

\* What Publish of the ports.EventPublisher may return: LocalBus.Publish
\* logs the event and returns nil; the port lets an adapter return an error.
ErrPublish == "publish failed"
PublishOutcomes == {Nil, ErrPublish}

\* The event handed to Publish, with what Publish returned.
TransferCompleted(h, err) ==
    [topic |-> "transfer.completed", from_id |-> proc[h].from, to_id |-> proc[h].to,
     cents |-> proc[h].cents, err |-> err]

\* An Execute that returns the error of Publish.
TransferPublishChecked(h) ==
    /\ proc[h].pc = "t_publish"
    /\ \E err \in PublishOutcomes :
          /\ events' = Append(events, TransferCompleted(h, err))
          /\ IF err # Nil
             THEN Return(h, err, Nil)
             ELSE Return(h, Nil, [FromBalance |-> Balance(proc[h].fromAccount),
                                  ToBalance |-> Balance(proc[h].toAccount)])
    /\ Note(h, [published |-> hist[h].published + 1])
    /\ UNCHANGED <<data, ctxDone, started>>
    /\ Others

\* Execute calls Publish, drops what it returns (_ =), and returns the
\* balances of its two local copies.
TransferPublish(h) ==
    /\ proc[h].pc = "t_publish"
    /\ \E err \in PublishOutcomes :
          events' = Append(events, TransferCompleted(h, err))
    /\ Note(h, [published |-> hist[h].published + 1])
    /\ Return(h, Nil, [FromBalance |-> Balance(proc[h].fromAccount),
                       ToBalance |-> Balance(proc[h].toAccount)])
    /\ UNCHANGED <<data, ctxDone, started>>
    /\ Others

-----------------------------------------------------------------------------
(* The HTTP adapter: what the handlers write once the use case returned.   *)

StatusOK == 200
StatusCreated == 201
StatusAccepted == 202
StatusBadRequest == 400
StatusNotFound == 404
StatusUnprocessableEntity == 422
StatusInternalServerError == 500

\* httpx.WriteError: the status code and the message of the JSON body.
WriteError(statusCode, message) == [status |-> statusCode, error |-> message]

\* A mapDomainErr that answers 404 for the store's not-found error.
mapDomainErrNotFound(err) ==
    IF err = ErrInvalidAmount THEN WriteError(StatusBadRequest, err)
    ELSE IF err = ErrInsufficientFund THEN WriteError(StatusUnprocessableEntity, err)
    ELSE IF err \in {ErrInvalidCLABE, ErrEmptyHolder}
    THEN WriteError(StatusUnprocessableEntity, err)
    ELSE IF err = ErrNotFound THEN WriteError(StatusNotFound, err)
    ELSE WriteError(StatusInternalServerError, "internal error")

\* mapDomainErr.  No error of the program wraps another one, so that
\* errors.Is(err, target) is err == target; err.Error() is the message,
\* which is how the model writes an error.
mapDomainErr(err) ==
    IF err = ErrInvalidAmount THEN WriteError(StatusBadRequest, err)
    ELSE IF err = ErrInsufficientFund THEN WriteError(StatusUnprocessableEntity, err)
    ELSE IF err \in {ErrInvalidCLABE, ErrEmptyHolder}
    THEN WriteError(StatusUnprocessableEntity, err)
    ELSE WriteError(StatusInternalServerError, "internal error")

\* The status createAccount, deposit and transfer answer with on success.
SuccessStatus(op) ==
    CASE op = "open" -> StatusCreated
      [] op = "deposit" -> StatusOK
      [] op = "transfer" -> StatusAccepted

\* The handler writes its response: mapDomainErr on an error of the use
\* case, the output otherwise.
WriteResponse(h) ==
    /\ proc[h].pc = "done"
    /\ proc[h].response.status = 0
    /\ Step(h, [response |-> IF proc[h].result.err # Nil
                             THEN mapDomainErr(proc[h].result.err)
                             ELSE [status |-> SuccessStatus(proc[h].op), error |-> ""]])
    /\ UNCHANGED <<data, ctxDone, events, hist, started>>
    /\ Others

\* The handler returns and is free for the next request.
Finish(h) ==
    /\ proc[h].pc = "done"
    /\ proc[h].response.status # 0
    /\ proc' = [proc EXCEPT ![h] = NoProc]
    /\ hist' = [hist EXCEPT ![h] = NoHist]
    /\ ctxDone' = [ctxDone EXCEPT ![h] = FALSE]
    /\ UNCHANGED <<data, events, started>>
    /\ Others

\* The steps of a request that is running.
Run(h) ==
    \/ OpenAccountCreate(h)
    \/ DepositCredit(h)
    \/ DepositSave(h)
    \/ TransferByIDTo(h)
    \/ TransferDomainRules(h)
    \/ STPAttempt(h)
    \/ STPTimer(h)
    \/ STPCancelled(h)
    \/ Cancel(h)
    \/ TransferCheckStatus(h)
    \/ TransferSaveFrom(h)
    \/ TransferSaveTo(h)
    \/ TransferPublish(h)

\* Spec: the service with its requests served one after the other (no
\* concurrent operation): a request arrives only once the one before it has
\* been answered.
Quiet == started < MaxRequests /\ \A u \in Handlers : proc[u].pc = "idle"

Next ==
    \E h \in Handlers :
       \/ Quiet /\ OpenAccountNew(h)
       \/ Quiet /\ DepositByID(h)
       \/ Quiet /\ TransferByIDFrom(h)
       \/ Run(h)
       \/ WriteResponse(h)
       \/ Finish(h)

Spec == Init /\ [][Next]_vars

\* SpecConcurrent: every handler serves one request, and the requests run
\* concurrently, interleaved at the steps of the use cases.
NextConcurrent ==
    \E h \in Handlers :
       \/ OpenAccountNew(h)
       \/ DepositByID(h)
       \/ TransferByIDFrom(h)
       \/ Run(h)

SpecConcurrent == Init /\ [][NextConcurrent]_vars

\* SpecRail: one transfer, served by the first handler, from its arrival to
\* its return, with the scheduling the payment rail's termination rests on:
\* the goroutine in SendTransfer goes on running (its next attempt is made),
\* and while it waits in the select, the timer fires unless the context is
\* cancelled, and a cancelled context is received.
RailStep(h) == STPAttempt(h) \/ STPTimer(h) \/ STPCancelled(h)

NextRail ==
    \E h \in {"h1"} :
       \/ started = 0 /\ TransferByIDFrom(h)
       \/ TransferByIDTo(h)
       \/ TransferDomainRules(h)
       \/ STPAttempt(h)
       \/ STPTimer(h)
       \/ STPCancelled(h)
       \/ Cancel(h)
       \/ TransferCheckStatus(h)
       \/ TransferSaveFrom(h)
       \/ TransferSaveTo(h)
       \/ TransferPublish(h)

RailFairness == WF_vars(RailStep("h1"))

SpecRail == Init /\ [][NextRail]_vars /\ RailFairness

-----------------------------------------------------------------------------
(* SpecAccount: sequences of Credit and Debit calls on one Account, as in  *)
(* TestAccountInvariants.                                                  *)

InitAccount ==
    /\ jitter = NoJitter
    /\ ServiceIdle
    /\ StoreIdle
    /\ ClabeIdle
    /\ account = NewAccount("acc-1", "Alice", NewCLABE(ValidCLABE).value).account
    /\ last = NoCall
    /\ credited = Zero64
    /\ debited = Zero64
    /\ calls = 0

CallCredit ==
    /\ calls < MaxCalls
    /\ \E cents \in CentsInputs :
          LET r == Credit(account, cents) IN
          /\ account' = r.account
          /\ last' = [op |-> "Credit", cents |-> cents, err |-> r.err,
                      before |-> Balance(account)]
          /\ credited' = IF r.err = Nil THEN AddZ(credited, cents) ELSE credited
          /\ debited' = debited
    /\ calls' = calls + 1
    /\ UNCHANGED <<backoffVars, serviceVars, storeVars, clabeVars>>

CallDebit ==
    /\ calls < MaxCalls
    /\ \E cents \in CentsInputs :
          LET r == Debit(account, cents) IN
          /\ account' = r.account
          /\ last' = [op |-> "Debit", cents |-> cents, err |-> r.err,
                      before |-> Balance(account)]
          /\ debited' = IF r.err = Nil THEN AddZ(debited, cents) ELSE debited
          /\ credited' = credited
    /\ calls' = calls + 1
    /\ UNCHANGED <<backoffVars, serviceVars, storeVars, clabeVars>>

NextAccount == CallCredit \/ CallDebit

SpecAccount == InitAccount /\ [][NextAccount]_vars

-----------------------------------------------------------------------------
(* SpecBackoff: one FullJitter call on arguments drawn from small sets.    *)

BaseDelays == {I64(1), baseDelay}
Multipliers == {1, multiplier}
MaxDelays == {Second, maxDelay}

InitBackoff ==
    /\ AccountIdle
    /\ ServiceIdle
    /\ StoreIdle
    /\ ClabeIdle
    /\ \E k \in 0..MaxAttemptIndex, b \in BaseDelays, m \in Multipliers, x \in MaxDelays :
          jitter = [NoJitter EXCEPT !.attemptIndex = k, !.base = b, !.mult = m, !.max = x]

CallFullJitter ==
    /\ ~jitter.called
    /\ \E r \in FullJitter(jitter.attemptIndex, jitter.base, jitter.mult, jitter.max) :
          jitter' = [jitter EXCEPT !.called = TRUE, !.panic = r.panic, !.delay = r.delay]
    /\ UNCHANGED <<accountVars, serviceVars, storeVars, clabeVars>>

NextBackoff == CallFullJitter

SpecBackoff == InitBackoff /\ [][NextBackoff]_vars

-----------------------------------------------------------------------------
(* SpecStore: goroutines calling the AccountRepository directly.  Accounts *)
(* are objects on a heap and the repository's map holds pointers, so that  *)
(* an alias between a caller's Account and a stored one can be told from a *)
(* copy.  An operation is three steps: the mutex is taken, the body runs,  *)
(* the deferred unlock runs.                                               *)

StoreIds == {"a", "b"}

\* The repository's content by value: what ByID would copy for each id.
StoredMap == [id \in DOMAIN repo |-> heap[repo[id]]]

\* A clone that hands back the pointer it was given.
cloneAccountAliased(h, p) == [heap |-> h, ptr |-> p]

\* cloneAccount on pointers: copy := *account; return &copy.
cloneAccountPtr(h, p) == [heap |-> Append(h, cloneAccount(h[p])), ptr |-> Len(h) + 1]

StoreOthers == UNCHANGED <<accountVars, backoffVars, serviceVars, clabeVars>>

SetThread(g, upd) == thread' = [thread EXCEPT ![g] = Set(@, upd)]

\* A goroutine between two calls starts the next one.
Ready(g) == thread[g].pc = "idle" /\ stored.ops < MaxStoreOps
Counted == stored' = [stored EXCEPT !.ops = @ + 1]

\* sync.RWMutex.  (A Lock that is waiting also holds back new readers; that
\* only removes interleavings and is left out.)
RLock == ~mutex.writer /\ mutex' = [mutex EXCEPT !.readers = @ + 1]
RUnlock == mutex' = [mutex EXCEPT !.readers = @ - 1]
\* A Lock that does not wait for the readers to leave.
LockIgnoringReaders == ~mutex.writer /\ mutex' = [mutex EXCEPT !.writer = TRUE]
Lock == ~mutex.writer /\ mutex.readers = 0 /\ mutex' = [mutex EXCEPT !.writer = TRUE]
Unlock == mutex' = [mutex EXCEPT !.writer = FALSE]

\* The caller builds an Account of its own with NewAccount.
CallerNew(g) ==
    /\ Ready(g)
    /\ \E id \in StoreIds :
          /\ heap' = Append(heap, NewAccount(id, "Alice", NewCLABE(ValidCLABE).value).account)
          /\ SetThread(g, [ptr |-> Len(heap) + 1, origin |-> "new", dirty |-> FALSE,
                           err |-> Nil])
    /\ Counted
    /\ UNCHANGED <<repo, mutex>>
    /\ StoreOthers

\* The caller credits the Account it holds.
CallerCredit(g) ==
    /\ Ready(g)
    /\ thread[g].ptr # 0
    /\ LET r == Credit(heap[thread[g].ptr], I64(1)) IN
          /\ heap' = [heap EXCEPT ![thread[g].ptr] = r.account]
          /\ SetThread(g, [dirty |-> TRUE, err |-> r.err])
    /\ Counted
    /\ UNCHANGED <<repo, mutex>>
    /\ StoreOthers

\* The caller debits the Account it holds.
CallerDebit(g) ==
    /\ Ready(g)
    /\ thread[g].ptr # 0
    /\ LET r == Debit(heap[thread[g].ptr], I64(1)) IN
          /\ heap' = [heap EXCEPT ![thread[g].ptr] = r.account]
          /\ SetThread(g, [dirty |-> thread[g].dirty \/ r.err = Nil, err |-> r.err])
    /\ Counted
    /\ UNCHANGED <<repo, mutex>>
    /\ StoreOthers

ByIDRLock(g) ==
    /\ Ready(g)
    /\ RLock
    /\ \E id \in StoreIds : SetThread(g, [pc |-> "byid_locked", id |-> id])
    /\ Counted
    /\ UNCHANGED <<heap, repo>>
    /\ StoreOthers

\* A ByID with the test of the lookup turned round.
ByIDBodyInverted(g) ==
    /\ thread[g].pc = "byid_locked"
    /\ IF thread[g].id \notin DOMAIN repo
       THEN /\ heap' = Append(heap, NewAccount(thread[g].id, "Alice", "").account)
            /\ SetThread(g, [pc |-> "byid_unlock", ptr |-> Len(heap) + 1, err |-> Nil,
                             before |-> StoredMap, origin |-> "byid", dirty |-> FALSE])
       ELSE /\ heap' = heap
            /\ SetThread(g, [pc |-> "byid_unlock", ptr |-> 0, err |-> ErrNotFound,
                             before |-> StoredMap, origin |-> "none", dirty |-> FALSE])
    /\ UNCHANGED <<repo, mutex, stored>>
    /\ StoreOthers

ByIDBody(g) ==
    /\ thread[g].pc = "byid_locked"
    /\ IF thread[g].id \notin DOMAIN repo
       THEN /\ heap' = heap
            /\ SetThread(g, [pc |-> "byid_unlock", ptr |-> 0, err |-> ErrNotFound,
                             before |-> StoredMap, origin |-> "none", dirty |-> FALSE])
       ELSE LET c == cloneAccountPtr(heap, repo[thread[g].id]) IN
            /\ heap' = c.heap
            /\ SetThread(g, [pc |-> "byid_unlock", ptr |-> c.ptr, err |-> Nil,
                             before |-> StoredMap, origin |-> "byid", dirty |-> FALSE])
    /\ UNCHANGED <<repo, mutex, stored>>
    /\ StoreOthers

ByIDRUnlock(g) ==
    /\ thread[g].pc = "byid_unlock"
    /\ RUnlock
    /\ SetThread(g, [pc |-> "idle"])
    /\ UNCHANGED <<heap, repo, stored>>
    /\ StoreOthers

\* repository.data[account.ID] = c, with the history of what was stored.
Put(g, c) ==
    LET id == heap[thread[g].ptr].ID IN
    /\ heap' = c.heap
    /\ repo' = [k \in DOMAIN repo \cup {id} |-> IF k = id THEN c.ptr ELSE repo[k]]
    /\ stored' = [stored EXCEPT
                    !.ever = @ \cup {id},
                    !.last = [k \in DOMAIN @ \cup {id} |->
                                IF k = id THEN heap[thread[g].ptr] ELSE @[k]]]

SaveLock(g) ==
    /\ Ready(g)
    /\ thread[g].ptr # 0
    /\ Lock
    /\ SetThread(g, [pc |-> "save_locked", id |-> heap[thread[g].ptr].ID])
    /\ Counted
    /\ UNCHANGED <<heap, repo>>
    /\ StoreOthers

\* A Save that only overwrites: an absent id is not inserted.
SaveBodyIfPresent(g) ==
    /\ thread[g].pc = "save_locked"
    /\ IF thread[g].id \in DOMAIN repo
       THEN Put(g, cloneAccountPtr(heap, thread[g].ptr))
       ELSE UNCHANGED <<heap, repo, stored>>
    /\ SetThread(g, [pc |-> "save_unlock", err |-> Nil, before |-> StoredMap,
                     arg |-> heap[thread[g].ptr], origin |-> "saved", dirty |-> FALSE])
    /\ UNCHANGED mutex
    /\ StoreOthers

SaveBody(g) ==
    /\ thread[g].pc = "save_locked"
    /\ Put(g, cloneAccountPtr(heap, thread[g].ptr))
    /\ SetThread(g, [pc |-> "save_unlock", err |-> Nil, before |-> StoredMap,
                     arg |-> heap[thread[g].ptr], origin |-> "saved", dirty |-> FALSE])
    /\ UNCHANGED mutex
    /\ StoreOthers

SaveUnlock(g) ==
    /\ thread[g].pc = "save_unlock"
    /\ Unlock
    /\ SetThread(g, [pc |-> "idle"])
    /\ UNCHANGED <<heap, repo, stored>>
    /\ StoreOthers

CreateLock(g) ==
    /\ Ready(g)
    /\ thread[g].ptr # 0
    /\ Lock
    /\ SetThread(g, [pc |-> "create_locked", id |-> heap[thread[g].ptr].ID])
    /\ Counted
    /\ UNCHANGED <<heap, repo>>
    /\ StoreOthers

\* A Create that overwrites an id that is present.
CreateBodyOverwriting(g) ==
    /\ thread[g].pc = "create_locked"
    /\ Put(g, cloneAccountPtr(heap, thread[g].ptr))
    /\ SetThread(g, [pc |-> "create_unlock",
                     err |-> IF thread[g].id \in DOMAIN repo THEN ErrAlreadyExists ELSE Nil,
                     before |-> StoredMap, arg |-> heap[thread[g].ptr],
                     origin |-> "created", dirty |-> FALSE])
    /\ UNCHANGED mutex
    /\ StoreOthers

CreateBody(g) ==
    /\ thread[g].pc = "create_locked"
    /\ IF thread[g].id \in DOMAIN repo
       THEN /\ UNCHANGED <<heap, repo, stored>>
            /\ SetThread(g, [pc |-> "create_unlock", err |-> ErrAlreadyExists,
                             before |-> StoredMap, arg |-> heap[thread[g].ptr]])
       ELSE /\ Put(g, cloneAccountPtr(heap, thread[g].ptr))
            /\ SetThread(g, [pc |-> "create_unlock", err |-> Nil,
                             before |-> StoredMap, arg |-> heap[thread[g].ptr],
                             origin |-> "created", dirty |-> FALSE])
    /\ UNCHANGED mutex
    /\ StoreOthers

CreateUnlock(g) ==
    /\ thread[g].pc = "create_unlock"
    /\ Unlock
    /\ SetThread(g, [pc |-> "idle"])
    /\ UNCHANGED <<heap, repo, stored>>
    /\ StoreOthers

InitStore ==
    /\ AccountIdle
    /\ jitter = NoJitter
    /\ ServiceIdle
    /\ ClabeIdle
    /\ StoreIdle

NextStore ==
    \E g \in Goroutines :
       \/ CallerNew(g)
       \/ CallerCredit(g)
       \/ CallerDebit(g)
       \/ ByIDRLock(g)
       \/ ByIDBody(g)
       \/ ByIDRUnlock(g)
       \/ SaveLock(g)
       \/ SaveBody(g)
       \/ SaveUnlock(g)
       \/ CreateLock(g)
       \/ CreateBody(g)
       \/ CreateUnlock(g)

SpecStore == InitStore /\ [][NextStore]_vars

-----------------------------------------------------------------------------
(* SpecCLABE: one NewCLABE call on account numbers that are               *)
(* "032180000118359719" with one character replaced or inserted, or cut    *)
(* short, and then a run of spaces put in.                                 *)

\* Tab, '/', '0', '9', ':', 'a', e with acute accent (2 bytes), the
\* Arabic-Indic digit three (2 bytes), the fullwidth digit one (3 bytes),
\* and the space.
Chars == {9, 47, 48, 57, 58, 97, 233, 1635, 65297, 32}

Edited ==
    {ValidCLABE, ShortCLABE}
       \cup {[ValidCLABE EXCEPT ![i] = c] : i \in 1..18, c \in Chars}
       \cup {InsertAt(ValidCLABE, i, <<c>>) : i \in 0..18, c \in Chars}
       \cup {SubSeq(ValidCLABE, 1, n) : n \in 0..18}
       \cup {SubSeq(ValidCLABE, 1, 18 - Utf8Len(c)) \o <<c>> : c \in Chars}

RawInputs ==
    {InsertAt(e, i, [j \in 1..k |-> 32]) :
        e \in Edited, i \in {0, 4, 18}, k \in 0..MaxSpaces}

InitCLABE ==
    /\ AccountIdle
    /\ jitter = NoJitter
    /\ ServiceIdle
    /\ StoreIdle
    /\ \E raw \in RawInputs : clabeCall = [NoCLABE EXCEPT !.raw = raw]

CallNewCLABE ==
    /\ ~clabeCall.called
    /\ LET r == NewCLABE(clabeCall.raw) IN
       clabeCall' = [clabeCall EXCEPT !.called = TRUE, !.value = r.value, !.err = r.err]
    /\ UNCHANGED <<accountVars, backoffVars, serviceVars, storeVars>>

NextCLABE == CallNewCLABE

SpecCLABE == InitCLABE /\ [][NextCLABE]_vars

-----------------------------------------------------------------------------
(* The Account (SpecAccount).                                              *)

\* C4: after every sequence of Credit and Debit calls on an Account created
\* with balance 0, the balance is the sum of the credits that succeeded
\* minus the sum of the debits that succeeded, and it is never negative.
C4_BalanceIsSumAndNonNegative ==
    /\ Balance(account) = SubZ(credited, debited)
    /\ ~IsNeg(Balance(account))

\* C5: Credit and Debit of an amount <= 0 fail with ErrInvalidAmount and
\* leave the balance as it was, whatever the state of the account; Debit
\* reports ErrInvalidAmount also where the funds check would fail.
C5_NonPositiveAmountRejected ==
    (last.op \in {"Credit", "Debit"} /\ LessEq(last.cents, Zero64))
        => (last.err = ErrInvalidAmount /\ Balance(account) = last.before)

\* C5's case: a Debit of an amount <= 0 on which the funds check would
\* fail too was rejected as an invalid amount.
C5_Witness ==
    /\ last.op = "Debit"
    /\ LessEq(last.cents, Zero64)
    /\ IsNeg(Sub64(last.before, last.cents))
    /\ last.err = ErrInvalidAmount

\* C6: on a balance B >= 0, Debit(A) with A > B fails with
\* ErrInsufficientFund and leaves B; with 0 < A <= B it succeeds and leaves
\* B - A (0 when A = B).
C6_DebitFunds ==
    (last.op = "Debit" /\ ~IsNeg(last.before) /\ Less(Zero64, last.cents)) =>
        IF Less(last.before, last.cents)
        THEN last.err = ErrInsufficientFund /\ Balance(account) = last.before
        ELSE last.err = Nil /\ Balance(account) = SubZ(last.before, last.cents)

\* C6's case: a Debit of the whole balance succeeded and left 0.
C6_Witness ==
    /\ last.op = "Debit"
    /\ Less(Zero64, last.cents)
    /\ last.cents = last.before
    /\ last.err = Nil
    /\ Balance(account) = Zero64

\* C6's other case: a Debit of more than the balance was refused.
C6_WitnessRefused ==
    /\ last.op = "Debit"
    /\ ~IsNeg(last.before)
    /\ Less(last.before, last.cents)
    /\ last.err = ErrInsufficientFund

-----------------------------------------------------------------------------
(* The transfer use case (Spec: no concurrent operation).                  *)

IsTransfer(h) == proc[h].op = "transfer"

\* SendTransfer has returned to the Execute of handler h.
Returned(h) == IsTransfer(h) /\ proc[h].status # ""

\* C1: when SendTransfer ends with a status other than OK, or with an
\* error, the transfer saves nothing and returns an error, and the store is
\* what it was when the transfer started.
C1_AllOrNothing ==
    \A h \in Handlers :
        (Returned(h) /\ (proc[h].status # "OK" \/ proc[h].err # Nil)) =>
            /\ proc[h].pc \in {"t_status", "done"}
            /\ hist[h].saves = << >>
            /\ hist[h].alone => data = hist[h].pre
            /\ proc[h].pc = "done" => proc[h].result.err # Nil

\* C1's case: a transfer has returned after the payment rail failed on every
\* attempt.
C1_Witness ==
    \E h \in Handlers :
        proc[h].pc = "done" /\ IsTransfer(h) /\ proc[h].status = "FAILED"

\* C1's other case: a transfer has returned after SendTransfer was cancelled.
C1_WitnessCancelled ==
    \E h \in Handlers :
        proc[h].pc = "done" /\ IsTransfer(h) /\ proc[h].status = "CANCELLED"

\* The transfer of handler h, on the accounts as the store held them when
\* it started: what Debit and Credit return.
PreDebit(h) == Debit(hist[h].pre[proc[h].from], proc[h].cents)
PreCredit(h) == Credit(hist[h].pre[proc[h].to], proc[h].cents)

\* Both accounts exist and the Debit or the Credit fails.
RulesFail(h) ==
    /\ IsTransfer(h)
    /\ proc[h].from \in DOMAIN hist[h].pre
    /\ proc[h].to \in DOMAIN hist[h].pre
    /\ PreDebit(h).err # Nil \/ PreCredit(h).err # Nil

\* C2: a transfer whose Debit or Credit fails never calls SendTransfer,
\* saves nothing, publishes nothing, leaves the store as it was and returns
\* that failure: ErrInvalidAmount for an amount <= 0, ErrInsufficientFund
\* for an amount above the source balance.  (An amount <= 0, or above a
\* source balance >= 0, does make the Debit or the Credit fail.)
C2_ValidationFirst ==
    \A h \in Handlers :
      /\ (/\ IsTransfer(h)
          /\ proc[h].from \in DOMAIN hist[h].pre
          /\ proc[h].to \in DOMAIN hist[h].pre
          /\ ~IsNeg(Balance(hist[h].pre[proc[h].from]))
          /\ \/ LessEq(proc[h].cents, Zero64)
             \/ Less(Balance(hist[h].pre[proc[h].from]), proc[h].cents)) => RulesFail(h)
      /\ RulesFail(h) =>
            /\ hist[h].sends = 0
            /\ hist[h].saves = << >>
            /\ hist[h].published = 0
            /\ hist[h].alone => data = hist[h].pre
            /\ proc[h].pc \in {"t_byIDTo", "t_rules", "done"}
            /\ proc[h].pc = "done" =>
                  /\ proc[h].result.out = Nil
                  /\ proc[h].result.err =
                        IF PreDebit(h).err # Nil THEN PreDebit(h).err ELSE PreCredit(h).err
                  /\ proc[h].result.err =
                        IF LessEq(proc[h].cents, Zero64)
                        THEN ErrInvalidAmount ELSE ErrInsufficientFund
                  /\ proc[h].result.err = ErrInsufficientFund =>
                        Less(Balance(hist[h].pre[proc[h].from]), proc[h].cents)

\* C2's case: a transfer of more than the source balance has returned
\* ErrInsufficientFund.
C2_Witness ==
    \E h \in Handlers :
        /\ proc[h].pc = "done"
        /\ RulesFail(h)
        /\ proc[h].result.err = ErrInsufficientFund

\* The transfer of handler h has returned in the case C3 is about: no
\* concurrent operation, two distinct accounts that exist, an amount within
\* the source balance, and the payment rail answering OK.
SuccessCase(h) ==
    /\ IsTransfer(h)
    /\ proc[h].pc = "done"
    /\ hist[h].alone
    /\ proc[h].from # proc[h].to
    /\ proc[h].from \in DOMAIN hist[h].pre
    /\ proc[h].to \in DOMAIN hist[h].pre
    /\ Less(Zero64, proc[h].cents)
    /\ LessEq(proc[h].cents, Balance(hist[h].pre[proc[h].from]))
    /\ proc[h].status = "OK"

\* C3: in that case the store holds the old source balance minus the amount
\* and the old destination balance plus the amount, and the transfer
\* returns these two balances.
C3_TransferPostcondition ==
    \A h \in Handlers :
        SuccessCase(h) =>
            LET fromBalance == SubZ(Balance(hist[h].pre[proc[h].from]), proc[h].cents)
                toBalance == AddZ(Balance(hist[h].pre[proc[h].to]), proc[h].cents)
            IN  /\ proc[h].result.err = Nil
                /\ Balance(data[proc[h].from]) = fromBalance
                /\ Balance(data[proc[h].to]) = toBalance
                /\ proc[h].result.out = [FromBalance |-> fromBalance,
                                         ToBalance |-> toBalance]

\* C17: a transfer calls Publish at most once, with the topic
\* transfer.completed and its source id, destination id and amount, only
\* after both saves; a transfer that returned nil has called it once and one
\* that returned an error never; whatever Publish returns, the transfer
\* returns nil and the balances of the two accounts after the transfer.
C17_CompletionEvent ==
    \A h \in Handlers :
        IsTransfer(h) =>
            /\ hist[h].published \in {0, 1}
            /\ hist[h].published = 1 <=> (proc[h].pc = "done" /\ proc[h].result.err = Nil)
            /\ hist[h].published = 1 =>
                  /\ hist[h].saves = <<proc[h].from, proc[h].to>>
                  /\ events # << >>
                  /\ events[Len(events)].topic = "transfer.completed"
                  /\ events[Len(events)].from_id = proc[h].from
                  /\ events[Len(events)].to_id = proc[h].to
                  /\ events[Len(events)].cents = proc[h].cents
                  /\ proc[h].result.out = [FromBalance |-> Balance(proc[h].fromAccount),
                                           ToBalance |-> Balance(proc[h].toAccount)]
                  /\ proc[h].from # proc[h].to =>
                        /\ Balance(data[proc[h].from]) = proc[h].result.out.FromBalance
                        /\ Balance(data[proc[h].to]) = proc[h].result.out.ToBalance

\* C17's case: Publish returned an error and the transfer returned nil.
C17_Witness ==
    \E h \in Handlers :
        /\ IsTransfer(h)
        /\ proc[h].pc = "done"
        /\ hist[h].published = 1
        /\ events[Len(events)].err # Nil
        /\ proc[h].result.err = Nil

\* C17's other case: a transfer has failed after SendTransfer was called.
C17_WitnessFailed ==
    \E h \in Handlers :
        /\ IsTransfer(h)
        /\ proc[h].pc = "done"
        /\ hist[h].sends = 1
        /\ proc[h].result.err # Nil
        /\ hist[h].published = 0

\* C18: a transfer whose source or destination is absent from the store
\* returns ErrNotFound, whatever the amount and the source balance; it
\* debits nothing, never calls SendTransfer, saves nothing and publishes
\* nothing; with the source absent it returns before the destination is
\* looked up.
C18_MissingAccount ==
    \A h \in Handlers :
        (IsTransfer(h) /\ (proc[h].from \notin DOMAIN hist[h].pre
                            \/ proc[h].to \notin DOMAIN hist[h].pre)) =>
            /\ hist[h].sends = 0
            /\ hist[h].saves = << >>
            /\ hist[h].published = 0
            /\ hist[h].alone => data = hist[h].pre
            /\ proc[h].toAccount = Nil
            /\ proc[h].status = ""
            /\ IF proc[h].from \notin DOMAIN hist[h].pre
               THEN proc[h].pc = "done" /\ proc[h].fromAccount = Nil
               ELSE /\ proc[h].pc \in {"t_byIDTo", "done"}
                    /\ proc[h].fromAccount = hist[h].pre[proc[h].from]
            /\ proc[h].pc = "done" =>
                  proc[h].result = [err |-> ErrNotFound, out |-> Nil]

\* C18's case: the destination is absent and the amount is not positive:
\* the transfer has returned ErrNotFound.
C18_Witness ==
    \E h \in Handlers :
        /\ IsTransfer(h)
        /\ proc[h].pc = "done"
        /\ proc[h].from \in DOMAIN hist[h].pre
        /\ proc[h].to \notin DOMAIN hist[h].pre
        /\ LessEq(proc[h].cents, Zero64)
        /\ proc[h].result.err = ErrNotFound

\* C18's other case: the source is absent and the amount exceeds every
\* balance.
C18_WitnessSource ==
    \E h \in Handlers :
        /\ IsTransfer(h)
        /\ proc[h].pc = "done"
        /\ proc[h].from \notin DOMAIN hist[h].pre
        /\ proc[h].cents = MaxInt64
        /\ proc[h].result.err = ErrNotFound

-----------------------------------------------------------------------------
(* The payment rail (Spec).                                                *)

\* C7: when an attempt of the external call succeeds, at whichever attempt
\* index, SendTransfer returns OK and nil at once: it is at its return, with
\* no backoff wait begun after the successful attempt.
C7_SuccessIsTerminal ==
    \A h \in Handlers :
        hist[h].lastOk =>
            /\ proc[h].pc = "t_status"
            /\ proc[h].status = "OK"
            /\ proc[h].err = Nil
            /\ hist[h].attempts \in 1..(maxRetries + 1)
            /\ hist[h].waits = hist[h].attempts - 1

\* C7's case: the external call succeeded at the last attempt index.
C7_Witness ==
    \E h \in Handlers :
        hist[h].lastOk /\ proc[h].status = "OK" /\ hist[h].attempts = maxRetries + 1

\* C8: one SendTransfer makes at most maxRetries + 1 = 5 attempts, at
\* indices 0..4; a transient failure at index maxRetries returns FAILED
\* with the transient error, after 4 backoff waits and none after it.
C8_Exhaustion ==
    /\ maxRetries + 1 = 5
    /\ \A h \in Handlers :
          /\ hist[h].attempts <= maxRetries + 1
          /\ proc[h].attemptIndex \in 0..maxRetries
          /\ proc[h].pc \in {"stp_attempt", "stp_blocked"} =>
                /\ hist[h].waits = proc[h].attemptIndex + (IF proc[h].pc = "stp_blocked" THEN 1 ELSE 0)
                /\ hist[h].attempts = hist[h].waits
          /\ (proc[h].pc = "t_status" /\ hist[h].attempts = maxRetries + 1 /\ ~hist[h].lastOk) =>
                /\ proc[h].status = "FAILED"
                /\ proc[h].err = ErrTransient
                /\ hist[h].waits = maxRetries
          /\ (Returned(h) /\ proc[h].status = "FAILED") =>
                /\ proc[h].err = ErrTransient
                /\ proc[h].pc = "t_status" => hist[h].attempts = maxRetries + 1

\* C8's case: SendTransfer has returned FAILED after its fifth attempt.
C8_Witness ==
    \E h \in Handlers :
        /\ proc[h].pc = "t_status"
        /\ proc[h].status = "FAILED"
        /\ hist[h].attempts = 5

\* C9: when the context is cancelled while SendTransfer waits in the select,
\* the wait ends, SendTransfer returns CANCELLED with a non-nil error, and
\* no attempt of the external call follows the signal.
C9_CancelledInWait ==
    \A h \in Handlers :
        hist[h].sigInWait =>
            /\ proc[h].pc \in {"stp_blocked", "t_status"}
            /\ proc[h].pc = "stp_blocked" => ENABLED STPCancelled(h)
            /\ proc[h].pc = "t_status" =>
                  /\ proc[h].status = "CANCELLED"
                  /\ proc[h].status \notin {"OK", "FAILED"}
                  /\ proc[h].err # Nil
                  /\ hist[h].attempts = hist[h].waits

\* C9's case: SendTransfer has returned CANCELLED after a signal raised
\* during its wait.
C9_Witness ==
    \E h \in Handlers :
        hist[h].sigInWait /\ proc[h].pc = "t_status" /\ proc[h].status = "CANCELLED"

-----------------------------------------------------------------------------
(* The backoff (SpecBackoff).                                              *)

\* min(base * mult^attemptIndex, max), computed without leaving the range
\* 0..max: the product is clamped at every step.
RECURSIVE Cap(_, _, _, _)
Cap(attemptIndex, base, mult, max) ==
    IF attemptIndex = 0 THEN (IF Less(max, base) THEN max ELSE base)
    ELSE LET p == Cap(attemptIndex - 1, base, mult, max) IN
         IF p = max THEN max
         ELSE LET c == MulZ(p, mult) IN IF Less(max, c) THEN max ELSE c

\* The caps the client's constants give: 200ms, 400ms, 800ms, 1600ms, then 3s.
ClientCap(attemptIndex) ==
    IF attemptIndex >= 4 THEN MulZ(Second, 3)
    ELSE MulZ(I64(200 * 1000000), 2^attemptIndex)

\* C10: for every attemptIndex >= 0, FullJitter returns a delay d with
\* 0 <= d <= min(baseDelay * multiplier^attemptIndex, maxDelay); with the
\* client's constants that cap is 200ms, 400ms, 800ms, 1600ms for
\* attemptIndex 0..3 and 3s from 4 on.
C10_BackoffBound ==
    jitter.called =>
        /\ ~jitter.panic
        /\ LessEq(Zero64, jitter.delay)
        /\ LessEq(jitter.delay,
                  Cap(jitter.attemptIndex, jitter.base, jitter.mult, jitter.max))
        /\ (jitter.base = baseDelay /\ jitter.mult = multiplier /\ jitter.max = maxDelay) =>
              /\ Cap(jitter.attemptIndex, jitter.base, jitter.mult, jitter.max)
                    = ClientCap(jitter.attemptIndex)
              /\ LessEq(jitter.delay, ClientCap(jitter.attemptIndex))

-----------------------------------------------------------------------------
(* The AccountRepository (SpecStore).                                      *)

\* Goroutine g holds an Account that it changed after getting it from ByID
\* (or after handing it to Create or Save), and that now differs from the
\* stored one.
ChangedSince(g, origins) ==
    /\ thread[g].pc = "idle"
    /\ thread[g].ptr # 0
    /\ thread[g].origin \in origins
    /\ thread[g].dirty
    /\ heap[thread[g].ptr].ID \in DOMAIN repo
    /\ heap[thread[g].ptr] # heap[repo[heap[thread[g].ptr].ID]]

\* C11: the stored snapshot of every id is the Account most recently handed
\* to Create or Save, as it was then, whatever the callers did since to the
\* Accounts they got from ByID or handed to Create or Save; no caller holds
\* a pointer to a stored Account.
C11_SnapshotIsolation ==
    /\ DOMAIN repo = DOMAIN stored.last
    /\ \A id \in DOMAIN repo : heap[repo[id]] = stored.last[id]
    /\ \A g \in Goroutines, id \in DOMAIN repo : thread[g].ptr # repo[id]

\* C11's case: one caller changed the Account ByID gave it, another changed
\* the Account it had handed to Create or Save.
C11_Witness ==
    \E g, u \in Goroutines :
        ChangedSince(g, {"byid"}) /\ ChangedSince(u, {"saved", "created"})

\* C12: a Create that found its id present has failed with
\* ErrAlreadyExists and left every stored snapshot as it was; a Create that
\* found it absent has succeeded and added a copy of its Account, leaving
\* the other entries as they were.
C12_Create ==
    \A g \in Goroutines :
        thread[g].pc = "create_unlock" =>
            IF thread[g].id \in DOMAIN thread[g].before
            THEN /\ thread[g].err = ErrAlreadyExists
                 /\ StoredMap = thread[g].before
            ELSE /\ thread[g].err = Nil
                 /\ DOMAIN repo = DOMAIN thread[g].before \cup {thread[g].id}
                 /\ StoredMap[thread[g].id] = thread[g].arg
                 /\ repo[thread[g].id] # thread[g].ptr
                 /\ \A k \in DOMAIN thread[g].before : StoredMap[k] = thread[g].before[k]

\* C12's case: Create was refused for an id that is present, on an Account
\* that differs from the stored one.
C12_Witness ==
    \E g \in Goroutines :
        /\ thread[g].pc = "create_unlock"
        /\ thread[g].err = ErrAlreadyExists
        /\ thread[g].arg # thread[g].before[thread[g].id]

\* C12's other case: Create inserted an id that was absent.
C12_WitnessInserted ==
    \E g \in Goroutines :
        /\ thread[g].pc = "create_unlock"
        /\ thread[g].err = Nil
        /\ thread[g].before # << >>

\* C13: the ids present are the ids that Create or Save have ever stored
\* (nothing removes one); ByID fails with ErrNotFound exactly for the other
\* ids, and otherwise returns a copy equal to the snapshot most recently
\* stored for its id.
C13_ByID ==
    /\ DOMAIN repo = stored.ever
    /\ \A g \in Goroutines :
          thread[g].pc = "byid_unlock" =>
              /\ thread[g].err = ErrNotFound <=> thread[g].id \notin stored.ever
              /\ thread[g].err # ErrNotFound =>
                    /\ thread[g].err = Nil
                    /\ thread[g].ptr # 0
                    /\ thread[g].ptr # repo[thread[g].id]
                    /\ heap[thread[g].ptr] = stored.last[thread[g].id]
              /\ thread[g].err = ErrNotFound => thread[g].ptr = 0

\* C13's case: ByID returned the snapshot a Save stored over an earlier one.
C13_Witness ==
    \E g \in Goroutines :
        /\ thread[g].pc = "byid_unlock"
        /\ thread[g].err = Nil
        /\ Balance(heap[thread[g].ptr]) = I64(1)

\* C13's other case: ByID failed for an id never stored while another id
\* was present.
C13_WitnessNotFound ==
    \E g \in Goroutines :
        /\ thread[g].pc = "byid_unlock"
        /\ thread[g].err = ErrNotFound
        /\ stored.ever # {}

\* C14: Save returns nil; whether its id was present or absent, the stored
\* snapshot of that id is then a copy equal to the Account saved (which is
\* what ByID copies), and the other entries are as they were.
C14_SaveUpserts ==
    \A g \in Goroutines :
        thread[g].pc = "save_unlock" =>
            /\ thread[g].err = Nil
            /\ DOMAIN repo = DOMAIN thread[g].before \cup {thread[g].id}
            /\ StoredMap[thread[g].id] = thread[g].arg
            /\ cloneAccountPtr(heap, repo[thread[g].id]).heap[Len(heap) + 1] = thread[g].arg
            /\ repo[thread[g].id] # thread[g].ptr
            /\ \A k \in DOMAIN thread[g].before \ {thread[g].id} :
                  StoredMap[k] = thread[g].before[k]

\* C14's case: Save inserted an id that no Create had stored.
C14_Witness ==
    \E g \in Goroutines :
        /\ thread[g].pc = "save_unlock"
        /\ thread[g].id \notin DOMAIN thread[g].before

\* C14's other case: Save replaced a stored snapshot by a different one.
C14_WitnessOverwrite ==
    \E g \in Goroutines :
        /\ thread[g].pc = "save_unlock"
        /\ thread[g].id \in DOMAIN thread[g].before
        /\ thread[g].before[thread[g].id] # thread[g].arg

\* Goroutine g is inside the critical section of a ByID (a reader), of a
\* Create or a Save (a writer).
Reading(g) == thread[g].pc \in {"byid_locked", "byid_unlock"}
Writing(g) == thread[g].pc \in {"save_locked", "save_unlock", "create_locked", "create_unlock"}

\* C15: while a Create or a Save is inside its critical section, no other
\* operation of the repository is inside its own.
C15_ReadersWriterExclusion ==
    \A g, u \in Goroutines :
        (g # u /\ Writing(g)) => ~(Reading(u) \/ Writing(u))

\* C15's case: two ByID calls are inside their critical sections together.
C15_Witness ==
    \E g, u \in Goroutines : g # u /\ Reading(g) /\ Reading(u)

-----------------------------------------------------------------------------
(* The transfer use case among concurrent requests (SpecConcurrent).       *)

\* C16: a transfer saves its source first and its destination second, each
\* once, and only after SendTransfer returned OK with a nil error; a
\* transfer that returned nil has made both saves, and one that is between
\* the two has made the first only.
C16_SaveOrder ==
    \A h \in Handlers :
        IsTransfer(h) =>
            /\ hist[h].saves \in {<< >>, <<proc[h].from>>, <<proc[h].from, proc[h].to>>}
            /\ hist[h].saves # << >> => proc[h].status = "OK" /\ proc[h].err = Nil
            /\ hist[h].saves = << >> <=>
                  proc[h].pc \notin {"t_saveTo", "t_publish"}
                     /\ ~(proc[h].pc = "done" /\ proc[h].result.err = Nil)
            /\ hist[h].saves = <<proc[h].from>> <=> proc[h].pc = "t_saveTo"

\* C16's case: a transfer is between its two saves, the store holds the
\* debited source and the destination not yet credited, and the ByID of a
\* concurrent deposit has read that debited source.
C16_Witness ==
    \E h, u \in Handlers :
        /\ h # u
        /\ IsTransfer(h)
        /\ proc[h].pc = "t_saveTo"
        /\ proc[h].from # proc[h].to
        /\ data[proc[h].from] = proc[h].fromAccount
        /\ Balance(data[proc[h].from]) # Balance(hist[h].pre[proc[h].from])
        /\ data[proc[h].to] = hist[h].pre[proc[h].to]
        /\ data[proc[h].to] # proc[h].toAccount
        /\ proc[u].op = "deposit"
        /\ proc[u].pc = "d_credit"
        /\ proc[u].to = proc[h].from
        /\ proc[u].account = data[proc[h].from]

-----------------------------------------------------------------------------
(* The account number (SpecCLABE).                                         *)

\* raw without its spaces.
Stripped(raw) == SelectSeq(raw, LAMBDA c : c # 32)

\* s is 18 characters, each one of '0'..'9'.
EighteenDigits(s) == Len(s) = 18 /\ \A i \in 1..Len(s) : s[i] \in 48..57

\* C19: NewCLABE(raw) succeeds exactly when raw without its spaces is 18
\* characters that are all ASCII digits, and its value is then that string;
\* every other raw gives ErrInvalidCLABE; "032180000118359719" is accepted
\* and "12345" is rejected.
C19_NewCLABE ==
    clabeCall.called =>
        /\ clabeCall.err = Nil <=> EighteenDigits(Stripped(clabeCall.raw))
        /\ clabeCall.err = Nil => clabeCall.value = Stripped(clabeCall.raw)
        /\ clabeCall.err # Nil =>
              clabeCall.err = ErrInvalidCLABE /\ clabeCall.value = << >>
        /\ clabeCall.raw = ValidCLABE => clabeCall.err = Nil
        /\ clabeCall.raw = ShortCLABE => clabeCall.err = ErrInvalidCLABE

\* C19's case: an account number with spaces in it was accepted and its
\* value is the 18 digits.
C19_Witness ==
    /\ clabeCall.called
    /\ clabeCall.err = Nil
    /\ clabeCall.raw # clabeCall.value
    /\ clabeCall.value = ValidCLABE

\* C19's other case: an account number of 18 bytes but 17 characters, the
\* last one not an ASCII digit, was rejected.
C19_WitnessWide ==
    /\ clabeCall.called
    /\ clabeCall.err = ErrInvalidCLABE
    /\ ByteLen(Stripped(clabeCall.raw)) = 18
    /\ Len(Stripped(clabeCall.raw)) = 17

-----------------------------------------------------------------------------
(* OpenAccountUseCase.Execute (Spec: no concurrent operation).             *)

\* Handler h has returned from an openAccount.
Opened(h) == proc[h].op = "open" /\ proc[h].pc = "done"

\* The account number given to handler h is 18 ASCII digits once its spaces
\* are removed; its holder name is empty or blank.
OpenValidNumber(h) == EighteenDigits(Stripped(proc[h].input.CLABE))
OpenBlankHolder(h) == proc[h].input.HolderName \in {"", " "}

\* The openAccount of handler h failed with err and added nothing.
OpenFailed(h, err) ==
    /\ proc[h].result.err = err
    /\ proc[h].result.out = Nil
    /\ data = hist[h].pre

\* The openAccount of handler h stored one new account, under an id the store
\* did not hold, with the holder name given, the account number without its
\* spaces and the balance 0, and returned these four.
OpenStored(h) ==
    LET out == proc[h].result.out IN
    /\ proc[h].result.err = Nil
    /\ out.ID \notin DOMAIN hist[h].pre
    /\ out.HolderName = proc[h].input.HolderName
    /\ out.CLABE = Stripped(proc[h].input.CLABE)
    /\ out.Balance = Zero64
    /\ DOMAIN data = DOMAIN hist[h].pre \cup {out.ID}
    /\ \A id \in DOMAIN hist[h].pre : data[id] = hist[h].pre[id]
    /\ data[out.ID] = [ID |-> out.ID, holderName |-> out.HolderName,
                       clabe |-> out.CLABE, balance |-> Zero64]

\* C20 as stated: an invalid account number gives ErrInvalidCLABE; else an
\* empty or blank holder name gives ErrEmptyHolder; nothing is added in both
\* cases; otherwise openAccount stores a new account under a fresh id with
\* balance 0 and returns its id, holder name, normalized number and balance.
C20_OpenAccountAsStated ==
    \A h \in Handlers :
        Opened(h) =>
            IF ~OpenValidNumber(h) THEN OpenFailed(h, ErrInvalidCLABE)
            ELSE IF OpenBlankHolder(h) THEN OpenFailed(h, ErrEmptyHolder)
            ELSE OpenStored(h)

\* C20: an invalid account number gives ErrInvalidCLABE; else an empty or
\* blank holder name gives ErrEmptyHolder; else, when the id drawn by
\* id.New() is in the store already, Create's ErrAlreadyExists is returned;
\* nothing is added in these three cases; otherwise openAccount stores a new
\* account under the id drawn, with balance 0, and returns its id, holder
\* name, normalized number and balance.
C20_OpenAccount ==
    \A h \in Handlers :
        Opened(h) =>
            IF ~OpenValidNumber(h) THEN OpenFailed(h, ErrInvalidCLABE)
            ELSE IF OpenBlankHolder(h) THEN OpenFailed(h, ErrEmptyHolder)
            ELSE IF proc[h].to \in DOMAIN hist[h].pre
            THEN OpenFailed(h, ErrAlreadyExists)
            ELSE OpenStored(h) /\ proc[h].result.out.ID = proc[h].to

\* C20's case: an openAccount with a holder name and an account number with
\* a space in it has stored the new account.
C20_Witness ==
    \E h \in Handlers :
        /\ Opened(h)
        /\ proc[h].input.CLABE # Stripped(proc[h].input.CLABE)
        /\ OpenStored(h)

\* C20's first case: both the account number and the holder name are
\* invalid, and the error is the account number's.
C20_WitnessBothInvalid ==
    \E h \in Handlers :
        /\ Opened(h)
        /\ ~OpenValidNumber(h)
        /\ OpenBlankHolder(h)
        /\ OpenFailed(h, ErrInvalidCLABE)

\* C20's other case: valid inputs, and an id that the store holds already.
C20_WitnessCollision ==
    \E h \in Handlers :
        /\ Opened(h)
        /\ OpenValidNumber(h)
        /\ ~OpenBlankHolder(h)
        /\ OpenFailed(h, ErrAlreadyExists)

-----------------------------------------------------------------------------
(* DepositMoneyUseCase.Execute (Spec: no concurrent operation).            *)

\* Handler h has returned from a deposit.
Deposited(h) == proc[h].op = "deposit" /\ proc[h].pc = "done"

\* C21: a deposit to an absent account returns ErrNotFound, one of an amount
\* <= 0 returns ErrInvalidAmount, and both leave the store as it was; any
\* other deposit, with no concurrent operation, leaves the stored balance of
\* the account at the old one plus the amount, and returns that balance.
C21_Deposit ==
    \A h \in Handlers :
        (Deposited(h) /\ hist[h].alone) =>
            IF proc[h].to \notin DOMAIN hist[h].pre
            THEN /\ proc[h].result.err = ErrNotFound
                 /\ data = hist[h].pre
            ELSE IF LessEq(proc[h].cents, Zero64)
            THEN /\ proc[h].result.err = ErrInvalidAmount
                 /\ data = hist[h].pre
            ELSE /\ proc[h].result.err = Nil
                 /\ Balance(data[proc[h].to]) =
                       AddZ(Balance(hist[h].pre[proc[h].to]), proc[h].cents)
                 /\ proc[h].result.out.ID = proc[h].to
                 /\ proc[h].result.out.Balance = Balance(data[proc[h].to])

-----------------------------------------------------------------------------
(* Account.Credit on large balances (SpecAccount).                         *)

\* C29: a Credit of an amount > 0 on a balance >= 0 that returned nil has
\* left the balance at the mathematical sum of the two, which is >= 0.
C29_CreditDoesNotWrap ==
    (/\ last.op = "Credit"
     /\ last.err = Nil
     /\ ~IsNeg(last.before)
     /\ Less(Zero64, last.cents)) =>
        /\ Balance(account) = AddZ(last.before, last.cents)
        /\ ~IsNeg(Balance(account))

-----------------------------------------------------------------------------
(* The HTTP error mapping (Spec).                                          *)

\* Handler h has written the response to a use case that returned an error.
AnsweredError(h) ==
    proc[h].pc = "done" /\ proc[h].response.status # 0 /\ proc[h].result.err # Nil

\* C22: the response to a use case error has status 400 for
\* ErrInvalidAmount, 422 for ErrInvalidCLABE, ErrEmptyHolder and
\* ErrInsufficientFund, and 500 for every other error, the store's
\* not-found and already-exists and the payment rail's errors among them.
C22_ErrorMapping ==
    \A h \in Handlers :
        AnsweredError(h) =>
            LET err == proc[h].result.err
                status == proc[h].response.status
            IN  /\ err = ErrInvalidAmount => status = 400
                /\ err \in {ErrInvalidCLABE, ErrEmptyHolder, ErrInsufficientFund} =>
                      status = 422
                /\ err \notin {ErrInvalidAmount, ErrInvalidCLABE, ErrEmptyHolder,
                               ErrInsufficientFund} => status = 500
                /\ err \in {ErrNotFound, ErrAlreadyExists, ErrTransient, ErrCanceled} =>
                      status = 500

\* C22's case: the store's not-found error was answered with 500.
C22_Witness ==
    \E h \in Handlers :
        /\ AnsweredError(h)
        /\ proc[h].result.err = ErrNotFound
        /\ proc[h].response.status = 500

\* C22's other cases: a cancelled payment was answered with 500, and a
\* transfer beyond the funds with 422.
C22_WitnessCancelled ==
    \E h \in Handlers :
        /\ AnsweredError(h)
        /\ proc[h].result.err = ErrCanceled
        /\ proc[h].response.status = 500

C22_WitnessFunds ==
    \E h \in Handlers :
        /\ AnsweredError(h)
        /\ proc[h].result.err = ErrInsufficientFund
        /\ proc[h].response.status = 422

-----------------------------------------------------------------------------
(* Conservation of money (Spec: no concurrent operation).                  *)

\* The sum of the balances of the accounts ids of a store, as an integer.
RECURSIVE SumOver(_, _)
SumOver(store, ids) ==
    IF ids = {} THEN Zero64
    ELSE LET id == CHOOSE x \in ids : TRUE
             rest == SumOver(store, ids \ {id})
         IN  AddZ(Balance(store[id]), rest)

TotalBalance(store) == SumOver(store, DOMAIN store)

\* C23: a transfer that has returned, with or without an error and with no
\* concurrent operation, leaves the sum of the stored balances what it was
\* when the transfer started, whatever the source and the destination, the
\* same account twice included; a successful transfer from an account to
\* itself leaves the stored balance of that account unchanged.
C23_Conservation ==
    \A h \in Handlers :
        (IsTransfer(h) /\ proc[h].pc = "done" /\ hist[h].alone) =>
            /\ TotalBalance(data) = TotalBalance(hist[h].pre)
            /\ (proc[h].from = proc[h].to /\ proc[h].result.err = Nil) =>
                  Balance(data[proc[h].from]) = Balance(hist[h].pre[proc[h].from])

-----------------------------------------------------------------------------
(* Concurrent workflows on a shared account (SpecConcurrent).              *)

\* Handler h has returned nil from a deposit or a transfer.
Succeeded(h) ==
    /\ proc[h].pc = "done"
    /\ proc[h].op \in {"deposit", "transfer"}
    /\ proc[h].result.err = Nil

\* Handler h has saved account id.
Saved(h, id) == \E i \in 1..Len(hist[h].saves) : hist[h].saves[i] = id

\* The local copy that handler h saved last for account id.
Wrote(h, id) ==
    IF proc[h].op = "deposit" THEN proc[h].account
    ELSE IF proc[h].to = id THEN proc[h].toAccount ELSE proc[h].fromAccount

\* C24: when two workflows that both saved an account have both returned
\* nil, the store holds for that account the local copy of one of them as
\* that one saved it (the other one's save was overwritten or came first);
\* the copy of a deposit is the balance the deposit read plus its amount.
C24_LastSaveWins ==
    \A g, h \in Handlers : \A id \in DOMAIN data :
        (g # h /\ Succeeded(g) /\ Succeeded(h) /\ Saved(g, id) /\ Saved(h, id)) =>
            /\ data[id] \in {Wrote(g, id), Wrote(h, id)}
            /\ proc[h].op = "deposit" =>
                  Balance(Wrote(h, id)) =
                     Add64(Balance(hist[h].pre[id]), proc[h].cents)

\* C24's case: two deposits to one account read the same balance and both
\* returned nil, and the stored balance is that balance plus the amount of
\* one of them only; the sum of the stored balances misses the other amount.
C24_Witness ==
    \E g, h \in Handlers :
        /\ g # h /\ Succeeded(g) /\ Succeeded(h)
        /\ proc[g].op = "deposit" /\ proc[h].op = "deposit"
        /\ proc[g].to = proc[h].to
        /\ hist[g].pre = hist[h].pre
        /\ proc[g].cents = I64(1) /\ proc[h].cents = I64(2)
        /\ ~IsNeg(Balance(hist[h].pre[proc[h].to]))
        /\ Balance(data[proc[h].to]) = AddZ(Balance(hist[h].pre[proc[h].to]), I64(2))
        /\ TotalBalance(data) = AddZ(TotalBalance(hist[h].pre), I64(2))

\* C24's other case: a transfer and a deposit to the transfer's source read
\* the same balance and both returned nil, and the store holds the source
\* as the transfer saved it: the amount deposited is in no stored balance.
C24_WitnessTransfer ==
    \E g, h \in Handlers :
        /\ Succeeded(g) /\ Succeeded(h)
        /\ proc[g].op = "transfer" /\ proc[h].op = "deposit"
        /\ proc[g].from = proc[h].to /\ proc[g].to # proc[g].from
        /\ hist[g].pre = hist[h].pre
        /\ Balance(hist[g].pre[proc[g].to]) = Zero64
        /\ data[proc[g].from] = proc[g].fromAccount
        /\ TotalBalance(data) = TotalBalance(hist[g].pre)

\* An amount far from the ends of int64 (below 2^60 in absolute value), and
\* a balance >= 0 that is.
SmallAmount(x) == x[1] \in {-1, 0}
SmallBalance(x) == x[1] = 0

\* The requests of this behaviour are on amounts and balances that cannot
\* overflow: the amounts asked for, the store each request found, and the
\* store now are small.
CannotOverflow ==
    /\ \A h \in Handlers :
          /\ SmallAmount(proc[h].cents)
          /\ \A id \in DOMAIN hist[h].pre : SmallBalance(Balance(hist[h].pre[id]))
    /\ \A id \in DOMAIN data : SmallAmount(Balance(data[id]))

\* C25: whatever the interleaving of concurrent openAccount, deposit and
\* transfer requests on amounts that cannot overflow, every account in the
\* store has a balance >= 0.
C25_StoredNonNegative ==
    CannotOverflow => \A id \in DOMAIN data : ~IsNeg(Balance(data[id]))

\* C25's case: two concurrent transfers of the whole balance of one source
\* have both returned nil, and the stored balance of the source is 0.
C25_Witness ==
    /\ CannotOverflow
    /\ \E g, h \in Handlers :
          /\ g # h /\ Succeeded(g) /\ Succeeded(h)
          /\ proc[g].op = "transfer" /\ proc[h].op = "transfer"
          /\ proc[g].from = proc[h].from
          /\ proc[g].to # proc[g].from /\ proc[h].to # proc[h].from
          /\ Balance(hist[g].pre[proc[g].from]) = proc[g].cents
          /\ Balance(hist[h].pre[proc[h].from]) = proc[h].cents
          /\ Balance(data[proc[g].from]) = Zero64

\* C25's other case: an openAccount has stored an account while a transfer
\* was running.
C25_WitnessOpen ==
    /\ CannotOverflow
    /\ \E g, h \in Handlers :
          /\ proc[g].op = "open" /\ proc[g].pc = "done" /\ proc[g].result.err = Nil
          /\ ~hist[g].alone
          /\ Succeeded(h) /\ proc[h].op = "transfer"

-----------------------------------------------------------------------------
(* What the workflows leave alone (Spec).                                  *)

\* This step is one of handler h.
StepOf(h) == proc'[h] # proc[h]

\* C26: no step removes an account from the store or changes the id, the
\* holder name or the account number of a stored account; a step that
\* changes a stored account is a step of a transfer whose source or
\* destination it is, or of a deposit to it, and never one of an openAccount.
C26_Frame ==
    [][\A id \in DOMAIN data :
          /\ id \in DOMAIN data'
          /\ data'[id].ID = data[id].ID
          /\ data'[id].holderName = data[id].holderName
          /\ data'[id].clabe = data[id].clabe
          /\ data'[id] # data[id] =>
                \E h \in Handlers :
                   /\ StepOf(h)
                   /\ \/ proc[h].op = "transfer" /\ id \in {proc[h].from, proc[h].to}
                      \/ proc[h].op = "deposit" /\ id = proc[h].to]_vars

\* C26's case: a transfer between two accounts has returned nil, and the
\* third account of the store, opened before, is as it was.
C26_Witness ==
    \E h \in Handlers : \E id \in DOMAIN data :
        /\ IsTransfer(h) /\ proc[h].pc = "done" /\ proc[h].result.err = Nil
        /\ id \notin {proc[h].from, proc[h].to}
        /\ proc[h].from # proc[h].to
        /\ data[proc[h].from] # hist[h].pre[proc[h].from]
        /\ data[proc[h].to] # hist[h].pre[proc[h].to]
        /\ data[id] = hist[h].pre[id]

\* C26's other case: an openAccount has failed on an id of the store, which
\* holds what it held.
C26_WitnessOpen ==
    \E h \in Handlers :
        /\ Opened(h)
        /\ proc[h].result.err = ErrAlreadyExists
        /\ data = hist[h].pre

-----------------------------------------------------------------------------
(* Termination of the payment rail (SpecRail).                             *)

\* Handler h is in SendTransfer; SendTransfer has returned to it.
InSendTransfer(h) == proc[h].pc \in {"stp_attempt", "stp_blocked"}
SendTransferReturned(h) == proc[h].pc = "t_status"

\* Attempts and waits alternate, starting with an attempt: before attempt k
\* (from 0) there were k attempts and k waits; in the wait after it there
\* were k + 1 of each; and at most 5 attempts and 4 waits are made.  What
\* is returned is OK with no error, or FAILED or CANCELLED with an error
\* that is not the one of the return after the loop.
RailCounts(h) ==
    /\ proc[h].pc # "panic"
    /\ proc[h].pc = "stp_attempt" =>
          /\ proc[h].attemptIndex \in 0..4
          /\ hist[h].attempts = proc[h].attemptIndex
          /\ hist[h].waits = proc[h].attemptIndex
    /\ proc[h].pc = "stp_blocked" =>
          /\ proc[h].attemptIndex \in 0..3
          /\ hist[h].attempts = proc[h].attemptIndex + 1
          /\ hist[h].waits = proc[h].attemptIndex + 1
    /\ SendTransferReturned(h) =>
          /\ hist[h].attempts \in 1..5
          /\ hist[h].waits \in 0..4
          /\ hist[h].waits \in {hist[h].attempts - 1, hist[h].attempts}
          /\ proc[h].status \in {"OK", "FAILED", "CANCELLED"}
          /\ proc[h].status = "OK" <=> proc[h].err = Nil
          /\ proc[h].err # ErrUnreachable

\* C27: every SendTransfer call returns, given that a timer started fires
\* unless the context is cancelled; it returns after at most 5 attempts and
\* 4 waits, attempts and waits alternating, with the status OK, FAILED or
\* CANCELLED, and never from the return after the loop.
C27_RailTerminates ==
    /\ [](\A h \in Handlers : RailCounts(h))
    /\ InSendTransfer("h1") ~> SendTransferReturned("h1")

\* C27's case: SendTransfer has returned FAILED after 5 attempts and 4 waits.
C27_Witness ==
    \E h \in Handlers :
        /\ SendTransferReturned(h)
        /\ proc[h].status = "FAILED"
        /\ hist[h].attempts = 5
        /\ hist[h].waits = 4

\* C27's other case: SendTransfer has returned CANCELLED from its fourth wait.
C27_WitnessCancelled ==
    \E h \in Handlers :
        /\ SendTransferReturned(h)
        /\ proc[h].status = "CANCELLED"
        /\ hist[h].attempts = 4
        /\ hist[h].waits = 4

-----------------------------------------------------------------------------
(* Where the cancellation is observed (Spec).                              *)

\* C28: SendTransfer looks at the context in its backoff wait only.  An
\* attempt that succeeds returns OK whether or not the context is cancelled,
\* the first one included, and the transfer then saves both accounts and
\* returns nil; a fifth attempt that fails returns FAILED with the
\* transient error whether or not the context is cancelled; and CANCELLED
\* is only returned from a wait, with the context cancelled.
C28_CancelOnlyInWait ==
    \A h \in Handlers :
        /\ (SendTransferReturned(h) /\ hist[h].lastOk) =>
              proc[h].status = "OK" /\ proc[h].err = Nil
        /\ (IsTransfer(h) /\ proc[h].pc = "done" /\ proc[h].status = "OK") =>
              /\ proc[h].result.err = Nil
              /\ hist[h].saves = <<proc[h].from, proc[h].to>>
        /\ (SendTransferReturned(h) /\ hist[h].attempts = 5 /\ ~hist[h].lastOk) =>
              proc[h].status = "FAILED" /\ proc[h].err = ErrTransient
        /\ (SendTransferReturned(h) /\ proc[h].status = "CANCELLED") =>
              /\ ctxDone[h]
              /\ hist[h].waits >= 1
              /\ hist[h].attempts = hist[h].waits
              /\ ~hist[h].lastOk

\* C28's case, continued: a transfer whose context was cancelled while it
\* was in SendTransfer or about to call it has returned nil, with both
\* accounts saved as its local copies.
C28_WitnessPersisted ==
    \E h \in Handlers :
        /\ IsTransfer(h) /\ proc[h].pc = "done"
        /\ ctxDone[h]
        /\ proc[h].status = "OK"
        /\ proc[h].result.err = Nil
        /\ proc[h].from # proc[h].to
        /\ data[proc[h].from] = proc[h].fromAccount
        /\ data[proc[h].to] = proc[h].toAccount
        /\ data # hist[h].pre

\* C28's case: the context was cancelled before the first attempt was
\* made, and SendTransfer has returned OK from that attempt.
C28_Witness ==
    \E h \in Handlers :
        /\ SendTransferReturned(h)
        /\ ctxDone[h]
        /\ hist[h].attempts = 1
        /\ proc[h].status = "OK"

\* C28's other case: the fifth attempt failed with the context cancelled,
\* and SendTransfer has returned FAILED.
C28_WitnessLastAttempt ==
    \E h \in Handlers :
        /\ SendTransferReturned(h)
        /\ ctxDone[h]
        /\ hist[h].attempts = 5
        /\ proc[h].status = "FAILED"

=============================================================================
